---- MODULE Spec2Model ----
(***************************************************************************)
(* Model of the MEFS MCP server's authentication session:                  *)
(*   src/src/core/mefs/config.ts  getAuthTokens / clearAuthTokens and the  *)
(*                                module-level cachedTokens                *)
(*   src/src/core/mefs/auth.ts    authenticate, getChallenge, signMessage, *)
(*                                login                                    *)
(* Every getAuthTokens call is an asynchronous activation; the code        *)
(* between two awaits runs atomically, and activations interleave at the   *)
(* awaits (the two fetches, the wallet signature and the await in          *)
(* getAuthTokens).  The storage service is an environment that answers     *)
(* each request with one of a small set of HTTP responses.                 *)
(***************************************************************************)
EXTENDS Integers, Sequences, FiniteSets, TLC

(* ------------------------------ bounds --------------------------------- *)

\* number of getAuthTokens calls made in one behaviour
MaxCalls == 2

\* number of clearAuthTokens calls made in one behaviour
MaxClears == 1

CallIds == 1..MaxCalls

(* ------------------------------ values --------------------------------- *)

\* JavaScript null (cachedTokens, config.ts:8) and undefined
NULL == [null |-> TRUE]

UNDEFINED == <<"undefined">>

\* strings that the code inspects are sequences of one-character strings
Rep(ch, n) == [i \in 1..n |-> ch]

\* a well-formed key with its 0x prefix (auth.test.ts:39 has this shape)
KeyA == <<"0", "x">> \o Rep("a", 64)

\* 'invalid-hex' (auth.test.ts:70)
KeyNotHex == <<"i", "n", "v", "a", "l", "i", "d", "-", "h", "e", "x">>

\* '0x1234' (config.test.ts:46): hexadecimal, but not 32 bytes
KeyShort == <<"0", "x", "1", "2", "3", "4">>

\* the AuthConfig values a caller may pass (auth.ts:7-13); only the field
\* privateKey decides a branch of authenticate
Configs ==
    { [privateKey |-> k] : k \in {KeyA, UNDEFINED, KeyNotHex, KeyShort} }

HexChars ==
    { "0", "1", "2", "3", "4", "5", "6", "7", "8", "9",
      "a", "b", "c", "d", "e", "f", "A", "B", "C", "D", "E", "F" }

NonceChar(n) == <<"0", "1", "2", "3", "4", "5", "6", "7", "8", "9">>[n + 1]

(* ------------------------- the storage service ------------------------- *)

\* The bodies the service may send for the n-th challenge request: a text
\* with a leading blank, its nonce and a trailing newline (the SIWE text has
\* several lines), and an empty body.
ChallengeBodies(n) ==
    { <<" ", "N", NonceChar(n), "\n">>,
      <<>> }

ChallengeResponses(n) ==
    { [ok |-> TRUE, status |-> 200, statusText |-> "OK", body |-> b] :
          b \in ChallengeBodies(n) }
    \cup
    { [ok |-> FALSE, status |-> 500, statusText |-> "Internal Server Error",
       body |-> <<"e">>] }

\* The n-th login is answered with a fresh token pair, with a JSON object
\* that lacks accessToken, or with an HTTP error.
LoginResponses(n) ==
    { [ok |-> TRUE, status |-> 200, statusText |-> "OK",
       json |-> [accessToken |-> <<"a", NonceChar(n)>>,
                 refreshToken |-> <<"r", NonceChar(n)>>,
                 newAccount |-> (n = 1)]],
      [ok |-> TRUE, status |-> 200, statusText |-> "OK",
       json |-> [accessToken |-> UNDEFINED,
                 refreshToken |-> <<"r", NonceChar(n)>>,
                 newAccount |-> (n = 1)]],
      [ok |-> FALSE, status |-> 401, statusText |-> "Unauthorized",
       body |-> <<"d">>] }

(* ------------------------------ state ---------------------------------- *)

VARIABLES
    cachedTokens,    \* config.ts:8
    pc,              \* pc[c]: the await at which call c is suspended
    config,          \* config[c]: the argument of call c
    message,         \* authenticate's local `message` (auth.ts:131)
    signature,       \* authenticate's local `signature` (auth.ts:134)
    tokens,          \* getAuthTokens' local `tokens` (config.ts:77)
    result,          \* settlement of the promise returned by call c
    request,         \* request[c]: the HTTP request call c is waiting on
    challengeCount,  \* GET /challenge requests received by the service
    loginCount,      \* POST /login requests received by the service
    loginLog,        \* bodies of the POST /login requests, in order
    clears,          \* clearAuthTokens calls made
    obs,             \* per-call observations (history, not program state)
    session,         \* observations about the whole session (history)
    mefsConfig,      \* the MefsConfig the tools are created with
    tool,            \* tool[i]: the i-th invocation of a tool handler
    fn               \* the function under study and its argument and result,
                     \* in the specifications of the pure functions

authVars ==
    <<cachedTokens, pc, config, message, signature, tokens, result, request,
      challengeCount, loginCount, loginLog, clears, obs, session>>

vars ==
    <<cachedTokens, pc, config, message, signature, tokens, result, request,
      challengeCount, loginCount, loginLog, clears, obs, session,
      mefsConfig, tool, fn>>

InFlight(c) == pc[c] \in {"challenge", "signing", "login", "resolved"}

Pending == [status |-> "pending"]

Fulfilled(v) == [status |-> "fulfilled", value |-> v]

Rejected(e) == [status |-> "rejected", error |-> e]


(* --------------------- signMessage (auth.ts:89-118) -------------------- *)

Err(text) == [name |-> "Error", message |-> [text |-> text]]

\* `Failed to sign message: ${error.message}` (auth.ts:116)
SignErr(detail) ==
    [name |-> "Error",
     message |-> [text |-> "Failed to sign message", detail |-> detail]]

\* Mutant of HttpErr: the error names the status and nothing else.
HttpErr_StatusOnly(text, r) ==
    [name |-> "Error", message |-> [text |-> text, status |-> r.status]]

\* `Failed to get challenge: ${status} ${statusText} - ${errorText}` and
\* `Failed to login: ...` (auth.ts:48, auth.ts:77)
HttpErr(text, r) ==
    [name |-> "Error",
     message |-> [text |-> text, status |-> r.status,
                  statusText |-> r.statusText, body |-> r.body]]

\* !privateKey: undefined and '' are both falsy
Falsy(s) == s = UNDEFINED \/ s = <<>>

\* /^[0-9a-fA-F]+$/.test(s)
IsHex(s) == Len(s) > 0 /\ \A i \in 1..Len(s) : s[i] \in HexChars

StartsWith0x(s) == Len(s) >= 2 /\ s[1] = "0" /\ s[2] = "x"

CleanKey(privateKey) ==
    IF StartsWith0x(privateKey)
    THEN SubSeq(privateKey, 3, Len(privateKey))
    ELSE privateKey

HexDigits ==
    <<"0", "1", "2", "3", "4", "5", "6", "7", "8", "9",
      "a", "b", "c", "d", "e", "f">>

UpperHexDigits ==
    <<"0", "1", "2", "3", "4", "5", "6", "7", "8", "9",
      "A", "B", "C", "D", "E", "F">>

HexValue(ch) ==
    (CHOOSE i \in DOMAIN HexDigits : HexDigits[i] = ch \/ UpperHexDigits[i] = ch) - 1

\* a < b for hexadecimal numerals of the same length
RECURSIVE HexLess(_, _)
HexLess(a, b) ==
    IF a = <<>>
    THEN FALSE
    ELSE IF HexValue(Head(a)) # HexValue(Head(b))
    THEN HexValue(Head(a)) < HexValue(Head(b))
    ELSE HexLess(Tail(a), Tail(b))

\* the order of the group of secp256k1
CurveOrder ==
    <<"f", "f", "f", "f", "f", "f", "f", "f", "f", "f", "f", "f", "f", "f", "f", "f",
      "f", "f", "f", "f", "f", "f", "f", "f", "f", "f", "f", "f", "f", "f", "f", "e",
      "b", "a", "a", "e", "d", "c", "e", "6", "a", "f", "4", "8", "a", "0", "3", "b",
      "b", "f", "d", "2", "5", "e", "8", "c", "d", "0", "3", "6", "4", "1", "4", "1">>

\* Mutant of WalletAccepts: a key of any length makes a wallet.
WalletAccepts_AnyLength(cleanKey) == TRUE

\* new ethers.Wallet(`0x${cleanKey}`) (auth.ts:108) throws unless the key is
\* 32 bytes that make a private key of the curve: a number from 1 to the
\* order of the group less one
WalletAccepts(cleanKey) ==
    /\ Len(cleanKey) = 64
    /\ \E i \in 1..Len(cleanKey) : HexValue(cleanKey[i]) # 0
    /\ HexLess(cleanKey, CurveOrder)

\* wallet.signMessage(message): the EIP-191 signature, from which the service
\* recovers who signed which text
PersonalSign(cleanKey, msg) == [signer |-> cleanKey, signed |-> msg]

\* Mutant of SignMessageError: the key is handed to the wallet as it came,
\* and a wallet is made of whatever it is.
SignMessageError_KeyUnchecked(privateKey, msg) ==
    IF Falsy(privateKey)
    THEN Err("Private key is required for signing messages")
    ELSE IF msg = <<>>
    THEN Err("Message cannot be empty")
    ELSE NULL

\* The error signMessage throws before it awaits the wallet, or NULL.
SignMessageError(privateKey, msg) ==
    IF Falsy(privateKey)
    THEN Err("Private key is required for signing messages")
    ELSE IF msg = <<>>
    THEN Err("Message cannot be empty")
    ELSE IF ~IsHex(CleanKey(privateKey))
    THEN SignErr("Invalid hex format for private key")
    ELSE IF ~WalletAccepts(CleanKey(privateKey))
    THEN SignErr("invalid private key")
    ELSE NULL

(* ------------------------------- Init ---------------------------------- *)

NoObs ==
    [started |-> FALSE,       \* the call has been made
     startCache |-> NULL,     \* cachedTokens when the call was made
     concurrent |-> {},       \* the calls in flight when the call was made
     succeededBefore |-> {},  \* the calls that had fetched tokens by then,
                              \* since the last clearAuthTokens
     afterFailure |-> FALSE,  \* some call had been rejected by then
     afterClear |-> FALSE,    \* the call is the first after a clearAuthTokens
     clearsAtStart |-> 0,     \* clearAuthTokens calls before the call was
     clearsAtEnd |-> 0,       \* made, and before it settled
     nChallenge |-> 0,        \* challenge requests sent by the call
     nLogin |-> 0,            \* login requests sent by the call
     loginNo |-> 0,           \* position of the call's login in loginLog
     challenge |-> NULL,      \* the challenge response the call received
     login |-> NULL,          \* the login response the call received
     events |-> <<>>,         \* the steps of the call, in order
     cacheAtEnd |-> NULL,     \* cachedTokens before and after the step that
     cacheAfterEnd |-> NULL]  \* settled the call

\* tool[i] before the i-th invocation
NoInvocation ==
    [pc |-> "idle",           \* idle, auth, storage or done
     name |-> "none",         \* the tool invoked: upload or retrieve
     input |-> NULL,          \* the handler's argument
     call |-> 0,              \* the getAuthTokens call the handler made
     fileBytes |-> <<>>,      \* upload: the decoded bytes
     request |-> NULL,        \* the storage request the handler sent
     response |-> NULL,       \* the answer to it
     cacheAtStart |-> NULL,   \* cachedTokens when the handler was invoked
     cacheAtEnd |-> NULL,     \* cachedTokens when the handler returned
     out |-> NULL]            \* the value the handler returned

NoFunction == [stage |-> "none"]

AuthInit ==
    /\ cachedTokens = NULL
    /\ pc = [c \in CallIds |-> "idle"]
    /\ config = [c \in CallIds |-> [privateKey |-> UNDEFINED]]
    /\ message = [c \in CallIds |-> <<>>]
    /\ signature = [c \in CallIds |-> NULL]
    /\ tokens = [c \in CallIds |-> NULL]
    /\ result = [c \in CallIds |-> Pending]
    /\ request = [c \in CallIds |-> NULL]
    /\ challengeCount = 0
    /\ loginCount = 0
    /\ loginLog = <<>>
    /\ clears = 0
    /\ obs = [c \in CallIds |-> NoObs]
    /\ session = [succeeded |-> {}, failed |-> FALSE, cleared |-> FALSE]

Init ==
    /\ AuthInit
    /\ mefsConfig = [privateKey |-> UNDEFINED]
    /\ tool = [i \in CallIds |-> NoInvocation]
    /\ fn = NoFunction

(* ------------- getAuthTokens / authenticate, step by step -------------- *)

\* Mutants of Reject: invalidate-on-failure, and a half-written cache entry.
Reject_ClearsCache(c, e) ==
    /\ cachedTokens' = NULL
    /\ pc' = [pc EXCEPT ![c] = "done"]
    /\ result' = [result EXCEPT ![c] = [status |-> "rejected", error |-> e]]
    /\ request' = [request EXCEPT ![c] = NULL]

Reject_LeavesPartialPair(c, e) ==
    /\ cachedTokens' = [accessToken |-> UNDEFINED, refreshToken |-> UNDEFINED]
    /\ pc' = [pc EXCEPT ![c] = "done"]
    /\ result' = [result EXCEPT ![c] = [status |-> "rejected", error |-> e]]
    /\ request' = [request EXCEPT ![c] = NULL]

\* Mutant of Reject: the error is wrapped in a new one on its way out.
Reject_WrapsError(c, e) ==
    /\ cachedTokens' = cachedTokens
    /\ pc' = [pc EXCEPT ![c] = "done"]
    /\ result' = [result EXCEPT ![c] =
                      [status |-> "rejected",
                       error |-> [name |-> "Error",
                                  message |-> [text |-> "Authentication failed",
                                               detail |-> e.message]]]]
    /\ request' = [request EXCEPT ![c] = NULL]

\* An error thrown in authenticate rejects its promise; the await of
\* config.ts:77 rethrows it, so lines 78-79 are skipped and getAuthTokens
\* rejects with the same error.
Reject(c, e) ==
    /\ cachedTokens' = cachedTokens
    /\ pc' = [pc EXCEPT ![c] = "done"]
    /\ result' = [result EXCEPT ![c] = Rejected(e)]
    /\ request' = [request EXCEPT ![c] = NULL]

\* what the call observes when it settles in this step
Settled(o, evs) ==
    [o EXCEPT !.events = @ \o evs,
              !.clearsAtEnd = clears,
              !.cacheAtEnd = cachedTokens,
              !.cacheAfterEnd = cachedTokens']

\* Mutant of CacheHit: the cache is never consulted.
CacheHit_Never(cache) == FALSE

\* `if (cachedTokens)` (config.ts:73)
CacheHit(cache) == cache # NULL

\* Mutant of ChallengeOk: the status of the response is not looked at.
ChallengeOk_Always(r) == TRUE

\* `if (!response.ok)` in getChallenge (auth.ts:46)
ChallengeOk(r) == r.ok

\* `if (!response.ok)` in login (auth.ts:75)
LoginOk(r) == r.ok

\* Mutant of AuthTokensOf: the login response is passed on as it came.
AuthTokensOf_WholeResponse(loginResponse) == loginResponse

\* the object authenticate returns (auth.ts:137-140)
AuthTokensOf(loginResponse) ==
    [accessToken |-> loginResponse.accessToken,
     refreshToken |-> loginResponse.refreshToken]

Blank(ch) == ch \in {" ", "\n", "\t"}

RECURSIVE TrimStart(_)
TrimStart(s) ==
    IF s # <<>> /\ Blank(Head(s)) THEN TrimStart(Tail(s)) ELSE s

RECURSIVE TrimEnd(_)
TrimEnd(s) ==
    IF s # <<>> /\ Blank(s[Len(s)])
    THEN TrimEnd(SubSeq(s, 1, Len(s) - 1))
    ELSE s

\* Mutant of LoginBody: the message is normalised (message.trim()).
LoginBody_Trimmed(msg, sig) ==
    [message |-> TrimStart(TrimEnd(msg)), signature |-> sig]

\* JSON.stringify({ message, signature }) (auth.ts:69-72)
LoginBody(msg, sig) == [message |-> msg, signature |-> sig]

\* getAuthTokens(config) up to its first await (config.ts:72-77), which is
\* the fetch of getChallenge (auth.ts:30-44) reached through authenticate
\* (auth.ts:125-131).  Calls are numbered in the order in which they are made.
GetAuthTokens(c, cfg) ==
    /\ pc[c] = "idle"
    /\ \A d \in CallIds : d < c => pc[d] # "idle"
    /\ config' = [config EXCEPT ![c] = cfg]
    /\ LET o == [obs[c] EXCEPT
                    !.started = TRUE,
                    !.startCache = cachedTokens,
                    !.concurrent = {d \in CallIds : InFlight(d)},
                    !.succeededBefore = session.succeeded,
                    !.afterFailure = session.failed,
                    !.afterClear = session.cleared,
                    !.clearsAtStart = clears]
       IN  IF CacheHit(cachedTokens)
           THEN \* return cachedTokens (config.ts:74)
                /\ cachedTokens' = cachedTokens
                /\ pc' = [pc EXCEPT ![c] = "done"]
                /\ result' = [result EXCEPT ![c] = Fulfilled(cachedTokens)]
                /\ obs' = [obs EXCEPT ![c] = Settled(o, <<"cache_hit">>)]
                /\ session' = [session EXCEPT !.cleared = FALSE]
                /\ UNCHANGED <<request, challengeCount>>
           ELSE IF Falsy(cfg.privateKey)
           THEN \* auth.ts:126-128
                /\ Reject(c, Err("Private key is required for authentication"))
                /\ obs' = [obs EXCEPT ![c] = Settled(o, <<"rejected">>)]
                /\ session' = [session EXCEPT !.cleared = FALSE,
                                              !.failed = TRUE]
                /\ UNCHANGED challengeCount
           ELSE \* fetch(<apiBaseUrl>/challenge) is sent (auth.ts:39-44)
                /\ cachedTokens' = cachedTokens
                /\ pc' = [pc EXCEPT ![c] = "challenge"]
                /\ challengeCount' = challengeCount + 1
                /\ request' = [request EXCEPT ![c] =
                                  [path |-> "/challenge",
                                   n |-> challengeCount + 1]]
                /\ obs' = [obs EXCEPT ![c] =
                              [o EXCEPT !.nChallenge = @ + 1,
                                        !.events = @ \o <<"challenge_request">>]]
                /\ session' = [session EXCEPT !.cleared = FALSE]
                /\ UNCHANGED result
    /\ UNCHANGED <<message, signature, tokens, loginCount, loginLog, clears>>

\* The challenge response arrives (auth.ts:46-51); authenticate goes on to
\* signMessage (auth.ts:134), which runs up to its await of the wallet
\* (auth.ts:89-112) or throws.
ChallengeResponse(c) ==
    /\ pc[c] = "challenge"
    /\ \E r \in ChallengeResponses(request[c].n) :
          LET o == [obs[c] EXCEPT
                       !.challenge = r,
                       !.events = @ \o <<IF r.ok THEN "challenge_ok"
                                                 ELSE "challenge_error">>]
              e == SignMessageError(config[c].privateKey, r.body)
          IN  IF ~ChallengeOk(r)
              THEN /\ Reject(c, HttpErr("Failed to get challenge", r))
                   /\ obs' = [obs EXCEPT ![c] = Settled(o, <<"rejected">>)]
                   /\ session' = [session EXCEPT !.failed = TRUE]
                   /\ UNCHANGED message
              ELSE IF e # NULL
              THEN /\ Reject(c, e)
                   /\ message' = [message EXCEPT ![c] = r.body]
                   /\ obs' = [obs EXCEPT ![c] =
                                 Settled(o, <<"sign", "rejected">>)]
                   /\ session' = [session EXCEPT !.failed = TRUE]
              ELSE /\ cachedTokens' = cachedTokens
                   /\ message' = [message EXCEPT ![c] = r.body]
                   /\ pc' = [pc EXCEPT ![c] = "signing"]
                   /\ request' = [request EXCEPT ![c] = NULL]
                   /\ obs' = [obs EXCEPT ![c] =
                                 [o EXCEPT !.events = @ \o <<"sign">>]]
                   /\ UNCHANGED <<result, session>>
    /\ UNCHANGED <<config, signature, tokens, challengeCount, loginCount,
                   loginLog, clears>>

\* wallet.signMessage resolves (auth.ts:112-114) and authenticate calls login,
\* which sends its POST (auth.ts:136, auth.ts:57-73).
SignResolved(c) ==
    /\ pc[c] = "signing"
    /\ LET sig == PersonalSign(CleanKey(config[c].privateKey), message[c])
       IN  /\ signature' = [signature EXCEPT ![c] = sig]
           /\ loginLog' = Append(loginLog, LoginBody(message[c], sig))
    /\ loginCount' = loginCount + 1
    /\ request' = [request EXCEPT ![c] =
                      [path |-> "/login", n |-> loginCount + 1]]
    /\ pc' = [pc EXCEPT ![c] = "login"]
    /\ obs' = [obs EXCEPT ![c].nLogin = @ + 1,
                          ![c].loginNo = Len(loginLog'),
                          ![c].events = @ \o <<"signed", "login_request">>]
    /\ UNCHANGED <<cachedTokens, config, message, tokens, result,
                   challengeCount, clears, session>>

\* The login response arrives (auth.ts:75-80); authenticate resolves with the
\* token pair (auth.ts:137-140).
LoginResponse(c) ==
    /\ pc[c] = "login"
    /\ \E r \in LoginResponses(request[c].n) :
          LET o == [obs[c] EXCEPT
                       !.login = r,
                       !.events = @ \o <<IF r.ok THEN "login_ok"
                                                 ELSE "login_error">>]
          IN  IF ~LoginOk(r)
              THEN /\ Reject(c, HttpErr("Failed to login", r))
                   /\ obs' = [obs EXCEPT ![c] = Settled(o, <<"rejected">>)]
                   /\ session' = [session EXCEPT !.failed = TRUE]
                   /\ UNCHANGED tokens
              ELSE /\ cachedTokens' = cachedTokens
                   /\ tokens' = [tokens EXCEPT ![c] = AuthTokensOf(r.json)]
                   /\ pc' = [pc EXCEPT ![c] = "resolved"]
                   /\ request' = [request EXCEPT ![c] = NULL]
                   /\ obs' = [obs EXCEPT ![c] = o]
                   /\ UNCHANGED <<result, session>>
    /\ UNCHANGED <<config, message, signature, challengeCount, loginCount,
                   loginLog, clears>>

\* getAuthTokens resumes after its await (config.ts:77-79).
CacheWrite(c) ==
    /\ pc[c] = "resolved"
    /\ cachedTokens' = tokens[c]
    /\ result' = [result EXCEPT ![c] = Fulfilled(tokens[c])]
    /\ pc' = [pc EXCEPT ![c] = "done"]
    /\ obs' = [obs EXCEPT ![c] = Settled(obs[c], <<"cache_write">>)]
    /\ session' = [session EXCEPT !.succeeded = @ \cup {c}]
    /\ UNCHANGED <<config, message, signature, tokens, request,
                   challengeCount, loginCount, loginLog, clears>>

\* clearAuthTokens (config.ts:85-87)
ClearAuthTokens ==
    /\ clears < MaxClears
    /\ cachedTokens' = NULL
    /\ clears' = clears + 1
    /\ session' = [session EXCEPT !.succeeded = {}, !.cleared = TRUE]
    /\ UNCHANGED <<pc, config, message, signature, tokens, result, request,
                   challengeCount, loginCount, loginLog, obs>>

\* The session on its own: callers of getAuthTokens and clearAuthTokens.
Next ==
    \/ /\ \E c \in CallIds, cfg \in Configs : GetAuthTokens(c, cfg)
       /\ UNCHANGED <<mefsConfig, tool, fn>>
    \/ /\ \E c \in CallIds : ChallengeResponse(c)
       /\ UNCHANGED <<mefsConfig, tool, fn>>
    \/ /\ \E c \in CallIds : SignResolved(c)
       /\ UNCHANGED <<mefsConfig, tool, fn>>
    \/ /\ \E c \in CallIds : LoginResponse(c)
       /\ UNCHANGED <<mefsConfig, tool, fn>>
    \/ /\ \E c \in CallIds : CacheWrite(c)
       /\ UNCHANGED <<mefsConfig, tool, fn>>
    \/ /\ ClearAuthTokens
       /\ UNCHANGED <<mefsConfig, tool, fn>>

Spec == Init /\ [][Next]_vars

(* ------------------- base64 (utils.ts, retrieve tool) ------------------ *)

\* the largest number of bytes of a payload
MaxBytes == 3

Base64Alphabet ==
    <<"A", "B", "C", "D", "E", "F", "G", "H", "I", "J", "K", "L", "M",
      "N", "O", "P", "Q", "R", "S", "T", "U", "V", "W", "X", "Y", "Z",
      "a", "b", "c", "d", "e", "f", "g", "h", "i", "j", "k", "l", "m",
      "n", "o", "p", "q", "r", "s", "t", "u", "v", "w", "x", "y", "z",
      "0", "1", "2", "3", "4", "5", "6", "7", "8", "9", "+", "/">>

Base64Chars == {Base64Alphabet[i] : i \in DOMAIN Base64Alphabet}

Base64Value(ch) == (CHOOSE i \in DOMAIN Base64Alphabet : Base64Alphabet[i] = ch) - 1

Base64Char(v) == Base64Alphabet[v + 1]

\* Buffer.from(data).toString('base64'): three bytes make four characters,
\* the last group is padded with '='
RECURSIVE bytesToBase64(_)
bytesToBase64(data) ==
    IF data = <<>>
    THEN <<>>
    ELSE IF Len(data) = 1
    THEN LET n == data[1] * 16
         IN  <<Base64Char(n \div 64), Base64Char(n % 64), "=", "=">>
    ELSE IF Len(data) = 2
    THEN LET n == (data[1] * 256 + data[2]) * 4
         IN  <<Base64Char(n \div 4096), Base64Char((n \div 64) % 64),
               Base64Char(n % 64), "=">>
    ELSE LET n == data[1] * 65536 + data[2] * 256 + data[3]
         IN  <<Base64Char(n \div 262144), Base64Char((n \div 4096) % 64),
               Base64Char((n \div 64) % 64), Base64Char(n % 64)>>
             \o bytesToBase64(SubSeq(data, 4, Len(data)))

\* the bytes of a sequence of base64 characters, six bits each.  A strict
\* decoder fails on a last group that leaves six bits or more, or bits that
\* are not zero; a lenient one drops them.
RECURSIVE DecodeSextets(_, _)
DecodeSextets(cs, strict) ==
    IF cs = <<>>
    THEN [ok |-> TRUE, bytes |-> <<>>]
    ELSE IF Len(cs) = 1
    THEN [ok |-> ~strict, bytes |-> <<>>]
    ELSE IF Len(cs) = 2
    THEN LET n == Base64Value(cs[1]) * 64 + Base64Value(cs[2])
         IN  IF strict /\ n % 16 # 0
             THEN [ok |-> FALSE, bytes |-> <<>>]
             ELSE [ok |-> TRUE, bytes |-> <<n \div 16>>]
    ELSE IF Len(cs) = 3
    THEN LET n == Base64Value(cs[1]) * 4096 + Base64Value(cs[2]) * 64
                  + Base64Value(cs[3])
         IN  IF strict /\ n % 4 # 0
             THEN [ok |-> FALSE, bytes |-> <<>>]
             ELSE [ok |-> TRUE, bytes |-> <<n \div 1024, (n \div 4) % 256>>]
    ELSE LET n == Base64Value(cs[1]) * 262144 + Base64Value(cs[2]) * 4096
                  + Base64Value(cs[3]) * 64 + Base64Value(cs[4])
             rest == DecodeSextets(SubSeq(cs, 5, Len(cs)), strict)
         IN  IF rest.ok
             THEN [ok |-> TRUE,
                   bytes |-> <<n \div 65536, (n \div 256) % 256, n % 256>>
                             \o rest.bytes]
             ELSE rest

RECURSIVE StripPadding(_)
StripPadding(s) ==
    IF s # <<>> /\ s[Len(s)] = "="
    THEN StripPadding(SubSeq(s, 1, Len(s) - 1))
    ELSE s

\* base64.decode of multiformats on 'm' + text (utils.ts:15-16): the text after
\* the multibase prefix is decoded by the library's rfc4648 decoder, which
\* drops trailing '=' and throws on any other character outside the alphabet
\* and on an incomplete last group.
MultibaseDecode(text) ==
    LET body == StripPadding(text)
    IN  IF \E i \in DOMAIN body : body[i] \notin Base64Chars
        THEN [ok |-> FALSE, bytes |-> <<>>]
        ELSE DecodeSextets(body, TRUE)

\* the text up to its first '='
RECURSIVE BeforePadding(_)
BeforePadding(s) ==
    IF s = <<>> \/ Head(s) = "="
    THEN <<>>
    ELSE <<Head(s)>> \o BeforePadding(Tail(s))

\* Buffer.from(cleanStr, 'base64') (utils.ts:20): never throws; it decodes the
\* base64 characters it finds and drops an incomplete last group.
BufferFromBase64(s) ==
    LET IsBase64Char(ch) == ch \in Base64Chars
    IN  DecodeSextets(SelectSeq(BeforePadding(s), IsBase64Char), FALSE).bytes

DataUrlScheme == <<"d", "a", "t", "a", ":">>

DataUrlMarker == <<";", "b", "a", "s", "e", "6", "4", ",">>

\* the positions at which ';base64,' stands in s after 'data:'
MarkerPositions(s) ==
    {i \in (Len(DataUrlScheme) + 1)..(Len(s) - Len(DataUrlMarker) + 1) :
        SubSeq(s, i, i + Len(DataUrlMarker) - 1) = DataUrlMarker}

\* base64Str.replace(/^data:.*?;base64,/, '') (utils.ts:10)
StripDataUrl(s) ==
    IF /\ Len(s) >= Len(DataUrlScheme)
       /\ SubSeq(s, 1, Len(DataUrlScheme)) = DataUrlScheme
       /\ MarkerPositions(s) # {}
    THEN LET i == CHOOSE p \in MarkerPositions(s) :
                      \A q \in MarkerPositions(s) : p <= q
         IN  IF \E j \in 1..(i - 1) : s[j] = "\n"
             THEN s
             ELSE SubSeq(s, i + Len(DataUrlMarker), Len(s))
    ELSE s

\* base64ToBytes (utils.ts:8-26): the bytes, or the error it throws
base64ToBytes(base64Str) ==
    LET cleanStr == StripDataUrl(base64Str)
        prefixedStr == IF cleanStr # <<>> /\ Head(cleanStr) = "m"
                       THEN cleanStr
                       ELSE <<"m">> \o cleanStr
        decoded == MultibaseDecode(Tail(prefixedStr))
        buffer == BufferFromBase64(cleanStr)
    IN  IF decoded.ok
        THEN [ok |-> TRUE, bytes |-> decoded.bytes, error |-> NULL]
        ELSE IF bytesToBase64(buffer) = cleanStr
        THEN [ok |-> TRUE, bytes |-> buffer, error |-> NULL]
        ELSE [ok |-> FALSE, bytes |-> <<>>,
              error |-> Err("Invalid base64 format")]

(* ---------- the two conversions on their own: encode, then decode ------- *)

CodecBytes == {0, 1, 152, 255}

ByteSeqs == UNION {[1..n -> CodecBytes] : n \in 0..MaxBytes}

CodecInit ==
    /\ AuthInit
    /\ mefsConfig = [privateKey |-> UNDEFINED]
    /\ tool = [i \in CallIds |-> NoInvocation]
    /\ fn \in {[stage |-> "bytes", data |-> B, text |-> <<>>, decoded |-> NULL] :
                 B \in ByteSeqs}

\* retrieve's bytesToBase64(result.data) (src/unnamed/part_002:53)
BytesToBase64Call ==
    /\ fn.stage = "bytes"
    /\ fn' = [fn EXCEPT !.stage = "encoded", !.text = bytesToBase64(fn.data)]
    /\ UNCHANGED <<authVars, mefsConfig, tool>>

\* upload's base64ToBytes(input.file) (upload.ts:46)
Base64ToBytesCall ==
    /\ fn.stage = "encoded"
    /\ fn' = [fn EXCEPT !.stage = "decoded", !.decoded = base64ToBytes(fn.text)]
    /\ UNCHANGED <<authVars, mefsConfig, tool>>

CodecNext ==
    \/ BytesToBase64Call
    \/ Base64ToBytesCall

CodecSpec == CodecInit /\ [][CodecNext]_vars

(* ------------------------ signMessage on its own ----------------------- *)

\* the longest message signed
MaxMsgLen == 2

SignKeyLengths == {0, 1, 63, 64, 65}

\* keys with and without the 0x prefix, of hexadecimal and other characters,
\* around the length of a private key, and the keys of the tests
SignKeys ==
    {UNDEFINED, KeyNotHex, KeyShort}
        \cup {p \o Rep(ch, n) : p \in {<<>>, <<"0", "x">>},
                                ch \in {"a", "F", "0", "g"},
                                n \in SignKeyLengths}

SignMessages == UNION {[1..n -> {"N", " "}] : n \in 0..MaxMsgLen}

\* signMessage(privateKey, message) (auth.ts:89-118): how its promise settles
signMessage(privateKey, msg) ==
    LET e == SignMessageError(privateKey, msg)
    IN  IF e # NULL
        THEN Rejected(e)
        ELSE Fulfilled(PersonalSign(CleanKey(privateKey), msg))

SignInit ==
    /\ AuthInit
    /\ mefsConfig = [privateKey |-> UNDEFINED]
    /\ tool = [i \in CallIds |-> NoInvocation]
    /\ fn \in {[stage |-> "args", privateKey |-> k, message |-> m,
                settled |-> Pending] : k \in SignKeys, m \in SignMessages}

SignMessageCall ==
    /\ fn.stage = "args"
    /\ fn' = [fn EXCEPT !.stage = "settled",
                        !.settled = signMessage(fn.privateKey, fn.message)]
    /\ UNCHANGED <<authVars, mefsConfig, tool>>

SignNext == SignMessageCall

SignSpec == SignInit /\ [][SignNext]_vars

(* ------------------- the storage client (client.ts) -------------------- *)

\* an optional field of an input object is given and truthy
Given(input, field) ==
    /\ field \in DOMAIN input
    /\ input[field] # <<>>

\* the multipart form of uploadFile (client.ts:41-55); the upload tool passes
\* key and public, never user
UploadForm(file, filename, options) ==
    <<[name |-> "file", value |-> file, filename |-> filename]>>
        \o (IF Given(options, "key")
            THEN <<[name |-> "key", value |-> options.key]>>
            ELSE <<>>)
        \o (IF "public" \in DOMAIN options /\ options.public
            THEN <<[name |-> "public", value |-> "true"]>>
            ELSE <<>>)
        \o (IF Given(options, "user")
            THEN <<[name |-> "user", value |-> options.user]>>
            ELSE <<>>)

\* the request uploadFile sends (client.ts:38, 57-64)
UploadRequest(accessToken, file, filename, options) ==
    [method |-> "POST",
     path |-> [base |-> "/mefs/"],
     authorization |-> [scheme |-> "Bearer", token |-> accessToken],
     body |-> UploadForm(file, filename, options)]

\* the request downloadFile sends (client.ts:82-95)
DownloadRequest(accessToken, cid, input) ==
    [method |-> "GET",
     path |-> [base |-> "/mefs/", cid |-> cid],
     query |-> IF Given(input, "key")
               THEN <<[name |-> "key", value |-> input.key]>>
               ELSE <<>>,
     authorization |-> [scheme |-> "Bearer", token |-> accessToken]]

\* what fetch rejects with when the service cannot be reached
FetchFailed ==
    [name |-> "TypeError",
     message |-> [text |-> "fetch failed"],
     cause |-> Err("connect ECONNREFUSED")]

\* the answers to an upload: the identifier of the stored file, a refusal,
\* or no answer at all
UploadResponses ==
    {[ok |-> TRUE, status |-> 200, json |-> [Mid |-> <<"Q", "m">>]],
     [ok |-> FALSE, status |-> 500, statusText |-> "Internal Server Error",
      body |-> <<"u">>],
     [ok |-> FALSE, status |-> 401, statusText |-> "Unauthorized",
      body |-> <<"e">>],
     [ok |-> FALSE, status |-> 0, failed |-> FetchFailed]}

QuotedFilename ==
    <<"f", "i", "l", "e", "n", "a", "m", "e", "=", "\"", "a", "\"">>

\* the answers to a download: the stored bytes with or without the headers
\* that describe them, or a refusal
DownloadResponses ==
    {[ok |-> TRUE, status |-> 200, data |-> <<1, 2>>,
      headers |-> [contentType |-> <<"t">>,
                   contentDisposition |-> QuotedFilename]],
     [ok |-> TRUE, status |-> 200, data |-> <<152, 0>>,
      headers |-> [date |-> <<"d">>]],
     [ok |-> FALSE, status |-> 404, statusText |-> "Not Found",
      body |-> <<"n">>],
     [ok |-> FALSE, status |-> 401, statusText |-> "Unauthorized",
      body |-> <<"e">>]}

FilenameKey == <<"f", "i", "l", "e", "n", "a", "m", "e", "=">>

\* the characters of s from position i up to the next double quote
RECURSIVE UnquotedRun(_, _)
UnquotedRun(s, i) ==
    IF i > Len(s) \/ s[i] = "\""
    THEN <<>>
    ELSE <<s[i]>> \o UnquotedRun(s, i + 1)

\* what ([^"]+) captures when /filename="?([^"]+)"?/ is tried at position p
FilenameAt(s, p) ==
    LET q == p + Len(FilenameKey)
    IN  IF p + Len(FilenameKey) - 1 > Len(s)
           \/ SubSeq(s, p, p + Len(FilenameKey) - 1) # FilenameKey
        THEN <<>>
        ELSE IF q <= Len(s) /\ s[q] = "\""
        THEN UnquotedRun(s, q + 1)
        ELSE UnquotedRun(s, q)

\* response.headers.get(name) || otherwise
HeaderOr(r, name, otherwise) ==
    IF name \in DOMAIN r.headers /\ r.headers[name] # <<>>
    THEN r.headers[name]
    ELSE otherwise

\* the filename of downloadFile (client.ts:104-110)
ParseFilename(contentDisposition) ==
    LET matches == {p \in DOMAIN contentDisposition :
                       FilenameAt(contentDisposition, p) # <<>>}
    IN  IF matches = {}
        THEN <<"u", "n", "k", "n", "o", "w", "n">>
        ELSE FilenameAt(contentDisposition,
                        CHOOSE p \in matches : \A q \in matches : p <= q)

\* the DownloadResult of a successful response (client.ts:102-119)
DownloadResult(r) ==
    [data |-> r.data,
     filename |-> ParseFilename(HeaderOr(r, "contentDisposition", <<>>)),
     contentType |-> HeaderOr(r, "contentType", UNDEFINED)]

(* ------------- the tool handlers (upload.ts, retrieve tool) ------------ *)

\* the configurations a server may be started with: with and without a key
ToolConfigs ==
    {[privateKey |-> k, apiBaseUrl |-> "https://api.mefs.io:10000/produce"] :
        k \in {KeyA, UNDEFINED}}

\* arguments of the upload handler: base64 of the bytes 1, 2 ('AQI=') with
\* and without options, text that is not base64, and empty text
UploadInputs ==
    {[file |-> <<"A", "Q", "I", "=">>, name |-> <<"f">>],
     [file |-> <<"A", "Q", "I", "=">>, name |-> <<"f">>, key |-> <<"k">>,
      public |-> TRUE],
     [file |-> <<"n", "o", "t", "-", "b", "6", "4">>, name |-> <<"f">>],
     [file |-> <<>>, name |-> <<"f">>]}

\* arguments of the retrieve handler
RetrieveInputs ==
    {[cid |-> <<"Q", "m">>], [cid |-> <<"Q", "m">>, key |-> <<"k">>]}

\* error.cause ? error.cause.message : null
CauseOf(e) == IF "cause" \in DOMAIN e THEN e.cause.message ELSE NULL

\* Mutants of ErrorResult: the error leaves the handler as a rejection, and
\* the result of a failure is not flagged.
ErrorResult_Thrown(name, e) == [thrown |-> e]

ErrorResult_Unflagged(name, e) ==
    [content |->
        <<[type |-> "text",
           text |-> [name |-> e.name, message |-> e.message,
                     cause |-> CauseOf(e)]]>>]

\* the value the catch block of a handler returns (upload.ts:98-110,
\* src/unnamed/part_002:69-85).  Nothing in the handler throws a ZodError, so
\* the branch of upload.ts:81-96 is never taken.
ErrorResult(name, e) ==
    [content |->
        <<[error |-> TRUE,
           type |-> "text",
           text |-> IF name = "retrieve"
                    THEN [name |-> e.name, message |-> e.message,
                          cause |-> CauseOf(e),
                          apiBaseUrl |-> mefsConfig.apiBaseUrl]
                    ELSE [name |-> e.name, message |-> e.message,
                          cause |-> CauseOf(e)]]>>]

SuccessResult(payload) == [content |-> <<[type |-> "text", text |-> payload]>>]

\* Mutant of UploadPayload: the size is that of the text received.
UploadPayload_SizeOfText(input, fileBytes, uploaded) ==
    [cid |-> uploaded.Mid, filename |-> input.name, size |-> Len(input.file)]

\* JSON.stringify({ cid, filename, size }) (upload.ts:69-73)
UploadPayload(input, fileBytes, uploaded) ==
    [cid |-> uploaded.Mid, filename |-> input.name, size |-> Len(fileBytes)]

\* JSON.stringify({ cid, filename, file, size, contentType }), which leaves
\* out an undefined contentType (src/unnamed/part_002:59-65)
RetrievePayload(input, downloaded) ==
    IF downloaded.contentType = UNDEFINED
    THEN [cid |-> input.cid, filename |-> downloaded.filename,
          file |-> bytesToBase64(downloaded.data),
          size |-> Len(downloaded.data)]
    ELSE [cid |-> input.cid, filename |-> downloaded.filename,
          file |-> bytesToBase64(downloaded.data),
          size |-> Len(downloaded.data),
          contentType |-> downloaded.contentType]

\* invocations are numbered in the order in which they are made
NextInvocation(i) ==
    /\ tool[i].pc = "idle"
    /\ \A j \in CallIds : j < i => tool[j].pc # "idle"

\* Mutant of DecodeFailed: the handler goes on with whatever was decoded.
DecodeFailed_Ignored(input) == FALSE

\* base64ToBytes(input.file) throws (upload.ts:46)
DecodeFailed(input) == ~base64ToBytes(input.file).ok

\* invocation t ended with the given result
Ended(t, out) ==
    [t EXCEPT !.pc = "done", !.cacheAtEnd = cachedTokens', !.out = out]

\* Mutant of AfterGetAuthTokens: the storage request is sent whether the
\* tokens came or not.
AfterGetAuthTokens_SendsAnyway(t, settled) ==
    LET accessToken == IF settled.status = "rejected"
                       THEN UNDEFINED
                       ELSE settled.value.accessToken
    IN  [t EXCEPT
            !.pc = "storage",
            !.request =
                IF t.name = "upload"
                THEN UploadRequest(accessToken, t.fileBytes, t.input.name,
                                   t.input)
                ELSE DownloadRequest(accessToken, t.input.cid, t.input)]

\* Mutant of AfterGetAuthTokens: a rejection is not caught; the handler ends
\* without a result.
AfterGetAuthTokens_Uncaught(t, settled) ==
    IF settled.status = "rejected"
    THEN [t EXCEPT !.pc = "thrown"]
    ELSE [t EXCEPT
            !.pc = "storage",
            !.request =
                IF t.name = "upload"
                THEN UploadRequest(settled.value.accessToken, t.fileBytes,
                                   t.input.name, t.input)
                ELSE DownloadRequest(settled.value.accessToken, t.input.cid,
                                     t.input)]

\* The handler resumes after `await getAuthTokens(mefsConfig)`, as soon as
\* the promise is settled: a rejection is caught and returned as an error
\* result, otherwise uploadFile or downloadFile sends its request with the
\* access token (upload.ts:49-63, src/unnamed/part_002:40-50).
AfterGetAuthTokens(t, settled) ==
    IF settled.status = "rejected"
    THEN Ended(t, ErrorResult(t.name, settled.error))
    ELSE [t EXCEPT
            !.pc = "storage",
            !.request =
                IF t.name = "upload"
                THEN UploadRequest(settled.value.accessToken, t.fileBytes,
                                   t.input.name, t.input)
                ELSE DownloadRequest(settled.value.accessToken, t.input.cid,
                                     t.input)]

\* the invocations after a step of getAuthTokens: those whose call the step
\* settled have resumed
Resumed(invocations) ==
    [i \in CallIds |->
        LET t == invocations[i]
        IN  IF t.pc = "auth" /\ pc'[t.call] = "done"
            THEN AfterGetAuthTokens(t, result'[t.call])
            ELSE t]

\* uploadTool.handler up to its first await (upload.ts:43-49): the payload is
\* decoded, then getAuthTokens(mefsConfig) is called
UploadHandler(i, input) ==
    /\ NextInvocation(i)
    /\ LET t == [tool[i] EXCEPT !.name = "upload",
                                !.input = input,
                                !.cacheAtStart = cachedTokens,
                                !.fileBytes = base64ToBytes(input.file).bytes]
       IN  IF DecodeFailed(input)
           THEN /\ UNCHANGED authVars
                /\ tool' = [tool EXCEPT ![i] =
                               Ended(t, ErrorResult("upload",
                                            base64ToBytes(input.file).error))]
           ELSE \E c \in CallIds :
                   /\ GetAuthTokens(c, mefsConfig)
                   /\ tool' = Resumed([tool EXCEPT ![i] =
                                  [t EXCEPT !.pc = "auth", !.call = c]])
    /\ UNCHANGED <<mefsConfig, fn>>

\* retrieveTool.handler up to its first await (src/unnamed/part_002:37-40)
RetrieveHandler(i, input) ==
    /\ NextInvocation(i)
    /\ \E c \in CallIds :
          /\ GetAuthTokens(c, mefsConfig)
          /\ tool' = Resumed([tool EXCEPT ![i] =
                         [@ EXCEPT !.name = "retrieve",
                                   !.input = input,
                                   !.cacheAtStart = cachedTokens,
                                   !.pc = "auth",
                                   !.call = c]])
    /\ UNCHANGED <<mefsConfig, fn>>

\* ends invocation i with the given result
Return(i, t, out) == tool' = [tool EXCEPT ![i] = Ended(t, out)]

\* the answer to the upload arrives (client.ts:66-71, upload.ts:65-76)
UploadResponse(i) ==
    /\ tool[i].pc = "storage"
    /\ tool[i].name = "upload"
    /\ UNCHANGED <<authVars, mefsConfig, fn>>
    /\ \E r \in UploadResponses :
          LET t == [tool[i] EXCEPT !.response = r]
          IN  IF "failed" \in DOMAIN r
              THEN Return(i, t, ErrorResult("upload", r.failed))
              ELSE IF ~r.ok
              THEN Return(i, t, ErrorResult("upload",
                                    HttpErr("Failed to upload file", r)))
              ELSE Return(i, t, SuccessResult(
                                    UploadPayload(t.input, t.fileBytes, r.json)))

\* the answer to the download arrives (client.ts:97-119,
\* src/unnamed/part_002:52-68)
DownloadResponse(i) ==
    /\ tool[i].pc = "storage"
    /\ tool[i].name = "retrieve"
    /\ UNCHANGED <<authVars, mefsConfig, fn>>
    /\ \E r \in DownloadResponses :
          LET t == [tool[i] EXCEPT !.response = r]
          IN  IF ~r.ok
              THEN Return(i, t, ErrorResult("retrieve",
                                    HttpErr("Failed to download file", r)))
              ELSE Return(i, t, SuccessResult(
                                    RetrievePayload(t.input, DownloadResult(r))))

ToolInit ==
    /\ AuthInit
    /\ mefsConfig \in ToolConfigs
    /\ tool = [i \in CallIds |-> NoInvocation]
    /\ fn = NoFunction

\* The server: its two tools are invoked by a client, and the steps of the
\* authentication they start go on in between.
ToolNext ==
    \/ \E i \in CallIds, input \in UploadInputs : UploadHandler(i, input)
    \/ \E i \in CallIds, input \in RetrieveInputs : RetrieveHandler(i, input)
    \/ /\ \E c \in CallIds : ChallengeResponse(c)
       /\ tool' = Resumed(tool)
       /\ UNCHANGED <<mefsConfig, fn>>
    \/ /\ \E c \in CallIds : SignResolved(c)
       /\ UNCHANGED <<mefsConfig, tool, fn>>
    \/ /\ \E c \in CallIds : LoginResponse(c)
       /\ tool' = Resumed(tool)
       /\ UNCHANGED <<mefsConfig, fn>>
    \/ /\ \E c \in CallIds : CacheWrite(c)
       /\ tool' = Resumed(tool)
       /\ UNCHANGED <<mefsConfig, fn>>
    \/ \E i \in CallIds : UploadResponse(i)
    \/ \E i \in CallIds : DownloadResponse(i)

ToolSpec == ToolInit /\ [][ToolNext]_vars

\* The steps that no caller decides: the answers of the service to the
\* requests in flight and the continuations the event loop runs.
ToolProgress ==
    \/ /\ \E c \in CallIds : ChallengeResponse(c)
       /\ tool' = Resumed(tool)
       /\ UNCHANGED <<mefsConfig, fn>>
    \/ /\ \E c \in CallIds : SignResolved(c)
       /\ UNCHANGED <<mefsConfig, tool, fn>>
    \/ /\ \E c \in CallIds : LoginResponse(c)
       /\ tool' = Resumed(tool)
       /\ UNCHANGED <<mefsConfig, fn>>
    \/ /\ \E c \in CallIds : CacheWrite(c)
       /\ tool' = Resumed(tool)
       /\ UNCHANGED <<mefsConfig, fn>>
    \/ \E i \in CallIds : UploadResponse(i)
    \/ \E i \in CallIds : DownloadResponse(i)

\* The server with a caller of clearAuthTokens beside the clients.
ToolLiveNext ==
    \/ \E i \in CallIds, input \in UploadInputs : UploadHandler(i, input)
    \/ \E i \in CallIds, input \in RetrieveInputs : RetrieveHandler(i, input)
    \/ ToolProgress
    \/ /\ ClearAuthTokens
       /\ UNCHANGED <<mefsConfig, tool, fn>>

\* Every request is answered in the end and every continuation is run:
\* a step of ToolProgress that stays possible is taken.
ToolLiveSpec ==
    ToolInit /\ [][ToolLiveNext]_vars /\ WF_vars(ToolProgress)

(* ---------------- uploadFile and downloadFile on their own -------------- *)

\* an object with the one field, or with none
OptionalField(name, values) == {<<>>} \cup {name :> v : v \in values}

\* the UploadOptions a caller may pass (client.ts:13-17): each field absent,
\* falsy or truthy
UploadOptionSets ==
    {k @@ p @@ u : k \in OptionalField("key", {<<>>, <<"k">>}),
                   p \in OptionalField("public", {FALSE, TRUE}),
                   u \in OptionalField("user", {<<>>, <<"u">>})}

UploadArgs ==
    {[op |-> "uploadFile", stage |-> "called", file |-> <<1, 2>>,
      filename |-> <<"f">>, options |-> o, request |-> NULL] :
        o \in UploadOptionSets}

Attachment == <<"a", "t", "t", "a", "c", "h", "m", "e", "n", "t", ";", " ">>

SizeParameter == <<";", " ", "s", "i", "z", "e", "=", "1">>

FileNames == {<<"a">>, <<"a", ".", "b">>, <<"a", " ", "b">>}

\* Content-Disposition headers: none; one without a filename parameter; one
\* with an empty filename; the filename quoted or as a token, first or after
\* the disposition type, last or followed by another parameter
Dispositions ==
    {[form |-> "absent", name |-> <<>>, headers |-> [date |-> <<"d">>]],
     [form |-> "empty", name |-> <<>>,
      headers |-> [contentDisposition |-> <<>>]],
     [form |-> "no filename", name |-> <<>>,
      headers |-> [contentDisposition |-> <<"i", "n", "l", "i", "n", "e">>]],
     [form |-> "empty filename", name |-> <<>>,
      headers |-> [contentDisposition |-> Attachment \o FilenameKey
                                           \o <<"\"", "\"">>]]}
        \cup {[form |-> "quoted", name |-> n,
               headers |-> [contentDisposition |->
                               before \o FilenameKey \o <<"\"">> \o n
                                   \o <<"\"">> \o after,
                            contentType |-> <<"t">>]] :
                 n \in FileNames, before \in {<<>>, Attachment},
                 after \in {<<>>, SizeParameter}}
        \cup {[form |-> "unquoted", name |-> n,
               headers |-> [contentDisposition |->
                               before \o FilenameKey \o n \o after]] :
                 n \in FileNames, before \in {<<>>, Attachment},
                 after \in {<<>>, SizeParameter}}

DownloadArgs ==
    {[op |-> "downloadFile", stage |-> "answered", disposition |-> d,
      response |-> [ok |-> TRUE, status |-> 200, data |-> b,
                    headers |-> d.headers],
      returned |-> NULL] :
        d \in Dispositions, b \in {<<>>, <<1, 2>>}}

ClientInit ==
    /\ AuthInit
    /\ mefsConfig = [privateKey |-> UNDEFINED]
    /\ tool = [i \in CallIds |-> NoInvocation]
    /\ fn \in UploadArgs \cup DownloadArgs

\* uploadFile up to its fetch (client.ts:32-64)
UploadFileSends ==
    /\ fn.stage = "called"
    /\ fn' = [fn EXCEPT !.stage = "sent",
                        !.request = UploadRequest(<<"a", "1">>, fn.file,
                                                  fn.filename, fn.options)]
    /\ UNCHANGED <<authVars, mefsConfig, tool>>

\* downloadFile after an ok response (client.ts:102-119)
DownloadFileReturns ==
    /\ fn.stage = "answered"
    /\ fn' = [fn EXCEPT !.stage = "returned",
                        !.returned = DownloadResult(fn.response)]
    /\ UNCHANGED <<authVars, mefsConfig, tool>>

ClientNext ==
    \/ UploadFileSends
    \/ DownloadFileReturns

ClientSpec == ClientInit /\ [][ClientNext]_vars

(* ------------- loadMefsConfig and registerTools (start-up) ------------- *)

\* parseInt gives a number or NaN
NaN == [nan |-> TRUE]

Number(n) == [value |-> n]

DecimalDigits == {"0", "1", "2", "3", "4", "5", "6", "7", "8", "9"}

\* the longest run of decimal digits that s starts with
RECURSIVE DigitPrefix(_)
DigitPrefix(s) ==
    IF s = <<>> \/ Head(s) \notin DecimalDigits
    THEN <<>>
    ELSE <<Head(s)>> \o DigitPrefix(Tail(s))

RECURSIVE DecimalValue(_)
DecimalValue(ds) ==
    IF ds = <<>>
    THEN 0
    ELSE DecimalValue(SubSeq(ds, 1, Len(ds) - 1)) * 10 + HexValue(ds[Len(ds)])

\* parseInt(s, 10): blanks are skipped, a sign is taken, then the digits up
\* to the first character that is not one; NaN when there is no digit
ParseInt(s) ==
    LET t      == TrimStart(s)
        signed == t # <<>> /\ Head(t) \in {"-", "+"}
        digits == DigitPrefix(IF signed THEN Tail(t) ELSE t)
    IN  IF digits = <<>>
        THEN NaN
        ELSE IF signed /\ Head(t) = "-"
        THEN Number(0 - DecimalValue(digits))
        ELSE Number(DecimalValue(digits))

DefaultApiBaseUrl == "https://api.mefs.io:10000/produce"

DefaultOrigin == "https://memo.io"

DefaultChainId == 985

LowerHex(s) == [i \in 1..Len(s) |-> HexDigits[HexValue(s[i]) + 1]]

\* wallet.address: a text that the number of the key determines
AddressOf(cleanKey) == <<"0", "x", "address of">> \o LowerHex(cleanKey)

\* `Failed to convert private key to address: ${error.message}`
ConvertErr(detail) ==
    [name |-> "Error",
     message |-> [text |-> "Failed to convert private key to address",
                  detail |-> detail]]

\* privateKeyToAddress(privateKeyHex): the address, or the error it throws
privateKeyToAddress(privateKeyHex) ==
    IF Falsy(privateKeyHex)
    THEN [ok |-> FALSE, error |-> Err("Private key cannot be empty")]
    ELSE IF ~IsHex(CleanKey(privateKeyHex))
    THEN [ok |-> FALSE, error |-> Err("Invalid hex format for private key")]
    ELSE IF ~WalletAccepts(CleanKey(privateKeyHex))
    THEN [ok |-> FALSE, error |-> ConvertErr("invalid private key")]
    ELSE [ok |-> TRUE, address |-> AddressOf(CleanKey(privateKeyHex))]

\* console.warn(`Warning: Failed to convert private key to address: ...`)
ConversionWarning(e) ==
    [text |-> "Warning: Failed to convert private key to address",
     detail |-> e.message]

MissingKeyWarning ==
    [text |-> "Warning: MEFS_PRIVATE_KEY not provided. Authentication may fail."]

\* Mutant of Converted: the error of the conversion is not caught.
Converted_Uncaught(privateKey) ==
    IF Falsy(privateKey)
    THEN [address |-> UNDEFINED, warned |-> <<>>, thrown |-> NULL]
    ELSE LET r == privateKeyToAddress(privateKey)
         IN  IF r.ok
             THEN [address |-> r.address, warned |-> <<>>, thrown |-> NULL]
             ELSE [address |-> UNDEFINED, warned |-> <<>>, thrown |-> r.error]

\* if (privateKey) { try { address = privateKeyToAddress(privateKey) }
\*                   catch (error) { console.warn(...) } }
Converted(privateKey) ==
    IF Falsy(privateKey)
    THEN [address |-> UNDEFINED, warned |-> <<>>, thrown |-> NULL]
    ELSE LET r == privateKeyToAddress(privateKey)
         IN  IF r.ok
             THEN [address |-> r.address, warned |-> <<>>, thrown |-> NULL]
             ELSE [address |-> UNDEFINED,
                   warned |-> <<ConversionWarning(r.error)>>,
                   thrown |-> NULL]

\* process.env.NAME: undefined when the variable is not set
EnvOf(env, name) == IF name \in DOMAIN env THEN env[name] ELSE UNDEFINED

\* What a call of loadMefsConfig under the environment env does: the object
\* it returns or the error it throws, and what it writes with console.warn.
loadMefsConfig(env) ==
    LET apiBaseUrl == IF Falsy(EnvOf(env, "MEFS_API_BASE_URL"))
                      THEN DefaultApiBaseUrl
                      ELSE EnvOf(env, "MEFS_API_BASE_URL")
        origin     == IF Falsy(EnvOf(env, "MEFS_ORIGIN"))
                      THEN DefaultOrigin
                      ELSE EnvOf(env, "MEFS_ORIGIN")
        chainId    == IF Falsy(EnvOf(env, "MEFS_CHAIN_ID"))
                      THEN Number(DefaultChainId)
                      ELSE ParseInt(EnvOf(env, "MEFS_CHAIN_ID"))
        privateKey == EnvOf(env, "MEFS_PRIVATE_KEY")
        missing    == IF Falsy(privateKey) THEN <<MissingKeyWarning>> ELSE <<>>
        conv       == Converted(privateKey)
        base       == [apiBaseUrl |-> apiBaseUrl, origin |-> origin,
                       chainId |-> chainId, privateKey |-> privateKey]
    IN  IF conv.thrown # NULL
        THEN [threw |-> TRUE, error |-> conv.thrown,
              warnings |-> missing \o conv.warned]
        ELSE [threw |-> FALSE,
              config |-> IF Falsy(conv.address)
                         THEN base
                         ELSE base @@ ("address" :> conv.address),
              warnings |-> missing \o conv.warned]

RetrieveDescription ==
    "Retrieve a file from MEFS storage by its CID (Content ID). Returns the file content as a base64 encoded string."

UploadDescription ==
    "Upload a file to MEFS storage. The file must be provided as a base64 encoded string. Returns the CID (Mid) of the uploaded file."

\* z.object({...}): the shape is the fields and their types
RetrieveInputSchema ==
    [shape |-> [cid |-> "string", key |-> "string, optional"]]

UploadInputSchema ==
    [shape |-> [file |-> "string", name |-> "string",
                key |-> "string, optional", public |-> "boolean, optional"]]

\* retrieveTool(mefsConfig); the handler is a closure over mefsConfig
retrieveTool(cfg) ==
    [name |-> "retrieve", description |-> RetrieveDescription,
     inputSchema |-> RetrieveInputSchema,
     handler |-> [of |-> "retrieve", mefsConfig |-> cfg]]

uploadTool(cfg) ==
    [name |-> "upload", description |-> UploadDescription,
     inputSchema |-> UploadInputSchema,
     handler |-> [of |-> "upload", mefsConfig |-> cfg]]

\* Mutant of Tools: the list has the tool retrieve only.
Tools_RetrieveOnly(cfg) == <<retrieveTool(cfg)>>

\* const tools = [retrieveTool(mefsConfig), uploadTool(mefsConfig)]
Tools(cfg) == <<retrieveTool(cfg), uploadTool(cfg)>>

\* server.tool(tool.name, tool.description, tool.inputSchema.shape, tool.handler)
ServerToolCall(t) == <<t.name, t.description, t.inputSchema.shape, t.handler>>

EnvKeys ==
    {<<>>, KeyA, SubSeq(KeyA, 3, Len(KeyA)), KeyNotHex, KeyShort,
     <<"0", "x">> \o Rep("0", 64), <<"0", "x">> \o Rep("F", 64)}

EnvChainIds == {<<>>, <<"1">>, <<"1", "2", "x">>, <<"x">>, <<" ", "-", "7">>}

Environments ==
    {k @@ c @@ u @@ o :
        k \in OptionalField("MEFS_PRIVATE_KEY", EnvKeys),
        c \in OptionalField("MEFS_CHAIN_ID", EnvChainIds),
        u \in OptionalField("MEFS_API_BASE_URL", {<<>>, <<"u">>}),
        o \in OptionalField("MEFS_ORIGIN", {<<"o">>})}

LoadArgs ==
    {[op |-> "loadMefsConfig", stage |-> "called", env |-> e, outcome |-> NULL] :
        e \in Environments}

RegisterArgs ==
    {[op |-> "registerTools", stage |-> "called", mefsConfig |-> cfg,
      calls |-> <<>>] : cfg \in ToolConfigs \cup Configs}

BootInit ==
    /\ AuthInit
    /\ mefsConfig = [privateKey |-> UNDEFINED]
    /\ tool = [i \in CallIds |-> NoInvocation]
    /\ fn \in LoadArgs \cup RegisterArgs

LoadMefsConfigCall ==
    /\ fn.op = "loadMefsConfig"
    /\ fn.stage = "called"
    /\ fn' = [fn EXCEPT !.stage = "done", !.outcome = loadMefsConfig(fn.env)]
    /\ UNCHANGED <<authVars, mefsConfig, tool>>

\* One turn of the loop of registerTools: the next tool of the list is
\* handed to server.tool.
RegisterTool ==
    /\ fn.op = "registerTools"
    /\ fn.stage = "called"
    /\ Len(fn.calls) < Len(Tools(fn.mefsConfig))
    /\ fn' = [fn EXCEPT !.calls =
                 Append(@, ServerToolCall(Tools(fn.mefsConfig)[Len(@) + 1]))]
    /\ UNCHANGED <<authVars, mefsConfig, tool>>

\* The loop is over and registerTools returns.
RegisterToolsReturns ==
    /\ fn.op = "registerTools"
    /\ fn.stage = "called"
    /\ Len(fn.calls) = Len(Tools(fn.mefsConfig))
    /\ fn' = [fn EXCEPT !.stage = "done"]
    /\ UNCHANGED <<authVars, mefsConfig, tool>>

BootNext == LoadMefsConfigCall \/ RegisterTool \/ RegisterToolsReturns

BootSpec == BootInit /\ [][BootNext]_vars

(* ------------------- base64ToBytes on any text at all ------------------- *)

\* the longest text handed to base64ToBytes
MaxTextLen == 4

\* characters of the alphabet, the multibase prefix, the padding and a
\* character outside the alphabet
TextChars == {"A", "Q", "m", "=", "-"}

Texts == UNION {[1..n -> TextChars] : n \in 0..MaxTextLen}

ValidateInit ==
    /\ AuthInit
    /\ mefsConfig = [privateKey |-> UNDEFINED]
    /\ tool = [i \in CallIds |-> NoInvocation]
    /\ fn \in {[op |-> "base64ToBytes", stage |-> "called", text |-> s,
                decoded |-> NULL] : s \in Texts}

\* base64ToBytes(str), as the refinement of the upload schema and the upload
\* handler call it (upload.ts:13, upload.ts:46)
ValidateCall ==
    /\ fn.stage = "called"
    /\ fn' = [fn EXCEPT !.stage = "decoded", !.decoded = base64ToBytes(fn.text)]
    /\ UNCHANGED <<authVars, mefsConfig, tool>>

ValidateNext == ValidateCall

ValidateSpec == ValidateInit /\ [][ValidateNext]_vars

(* ------------------------ getChallenge on its own ----------------------- *)

\* Number.prototype.toString of a whole number that is not negative
RECURSIVE ToDecimal(_)
ToDecimal(n) ==
    IF n < 10
    THEN <<HexDigits[n + 1]>>
    ELSE ToDecimal(n \div 10) \o <<HexDigits[(n % 10) + 1]>>

\* config.chainId.toString()
NumberToString(x) ==
    IF x = NaN
    THEN <<"N", "a", "N">>
    ELSE IF x.value < 0
    THEN <<"-">> \o ToDecimal(0 - x.value)
    ELSE ToDecimal(x.value)

\* `if (config.chainId)`: 0 and NaN are falsy
TruthyNumber(x) == x # NaN /\ x.value # 0

\* the query of the challenge URL (auth.ts:32-37)
ChallengeQuery(cfg) ==
    (IF "address" \in DOMAIN cfg /\ ~Falsy(cfg.address)
     THEN <<[name |-> "address", value |-> cfg.address]>>
     ELSE <<>>)
    \o (IF "chainId" \in DOMAIN cfg /\ TruthyNumber(cfg.chainId)
        THEN <<[name |-> "chainid", value |-> NumberToString(cfg.chainId)]>>
        ELSE <<>>)

\* the request getChallenge sends (auth.ts:31-44)
ChallengeRequest(cfg) ==
    [method |-> "GET",
     url |-> [base |-> cfg.apiBaseUrl, path |-> "/challenge",
              query |-> ChallengeQuery(cfg)],
     headers |-> [Origin |-> cfg.origin]]

\* what getChallenge settles with on the response r (auth.ts:46-51)
ChallengeOutcome(r) ==
    IF ~ChallengeOk(r)
    THEN Rejected(HttpErr("Failed to get challenge", r))
    ELSE Fulfilled(r.body)

\* the AuthConfig objects handed to getChallenge: address and chainId are
\* optional (auth.ts:8-14)
ChallengeConfigs ==
    {[apiBaseUrl |-> DefaultApiBaseUrl, origin |-> o] @@ a @@ c :
        o \in {DefaultOrigin, "http://localhost"},
        a \in OptionalField("address", {<<>>, AddressOf(CleanKey(KeyA))}),
        c \in OptionalField("chainId",
                 {Number(0), Number(1), Number(DefaultChainId), NaN})}

GetChallengeArgs ==
    {[op |-> "getChallenge", stage |-> "called", config |-> cfg,
      request |-> NULL, response |-> NULL, settled |-> Pending] :
        cfg \in ChallengeConfigs}

ChallengeInit ==
    /\ AuthInit
    /\ mefsConfig = [privateKey |-> UNDEFINED]
    /\ tool = [i \in CallIds |-> NoInvocation]
    /\ fn \in GetChallengeArgs

\* getChallenge up to its await of fetch (auth.ts:30-44)
GetChallengeSends ==
    /\ fn.stage = "called"
    /\ fn' = [fn EXCEPT !.stage = "sent",
                        !.request = ChallengeRequest(fn.config)]
    /\ UNCHANGED <<authVars, mefsConfig, tool>>

\* the response arrives and getChallenge settles (auth.ts:46-51)
GetChallengeSettles ==
    /\ fn.stage = "sent"
    /\ \E r \in ChallengeResponses(1) :
          fn' = [fn EXCEPT !.stage = "settled",
                           !.response = r,
                           !.settled = ChallengeOutcome(r)]
    /\ UNCHANGED <<authVars, mefsConfig, tool>>

ChallengeNext == GetChallengeSends \/ GetChallengeSettles

ChallengeSpec == ChallengeInit /\ [][ChallengeNext]_vars

(* ============================== claims ================================= *)

\* d was in flight when c was made with the same config, and both found the
\* cache empty
ConcurrentOnEmptyCache(c, d) ==
    /\ c # d
    /\ obs[c].started
    /\ d \in obs[c].concurrent
    /\ config[c] = config[d]
    /\ obs[c].startCache = NULL
    /\ obs[d].startCache = NULL

Settles(c) == pc[c] = "done"

MissingPrivateKey == Err("Private key is required for authentication")

\* C1: getAuthTokens calls made while the cache is empty and before any of
\* them completes cause one authentication round in total: together they send
\* at most one challenge request and at most one login request.
C1_SingleAuthRound ==
    \A c, d \in CallIds :
        ConcurrentOnEmptyCache(c, d) =>
            /\ obs[c].nChallenge + obs[d].nChallenge <= 1
            /\ obs[c].nLogin + obs[d].nLogin <= 1

\* C2: getAuthTokens calls made concurrently against an empty cache all end
\* with the same outcome, the same token pair or the same failure.
C2_SameOutcome ==
    \A c, d \in CallIds :
        (ConcurrentOnEmptyCache(c, d) /\ Settles(c) /\ Settles(d)) =>
            result[c] = result[d]

\* C3: a call made after another call has fetched and cached a token pair,
\* with no clearAuthTokens in between, returns the cached pair without any
\* request, so the two calls together make one challenge request and one
\* login request.
C3_SecondCallServedFromCache ==
    \A c, d \in CallIds :
        d \in obs[c].succeededBefore =>
            /\ obs[c].startCache # NULL
            /\ result[c] = Fulfilled(obs[c].startCache)
            /\ obs[c].nChallenge = 0
            /\ obs[c].nLogin = 0
            /\ obs[d].nChallenge + obs[c].nChallenge = 1
            /\ obs[d].nLogin + obs[c].nLogin = 1

C3_Witness ==
    \E c, d \in CallIds :
        /\ d \in obs[c].succeededBefore
        /\ Settles(c)
        /\ result[c] = result[d]

\* C4: in every session state a call whose config has no private key is
\* rejected with the missing-key error and sends no request.
C4_MissingKeyAlwaysRejected ==
    \A c \in CallIds :
        (obs[c].started /\ Falsy(config[c].privateKey)) =>
            /\ result[c] = Rejected(MissingPrivateKey)
            /\ obs[c].nChallenge = 0
            /\ obs[c].nLogin = 0

\* C5: the step in which a call is rejected, at whichever stage, leaves
\* cachedTokens as it was: a cached pair is not cleared and none is written.
C5_FailureLeavesCache ==
    \A c \in CallIds :
        result[c].status = "rejected" =>
            obs[c].cacheAfterEnd = obs[c].cacheAtEnd

\* a login is refused while another call's pair is cached
C5_Witness ==
    \E c \in CallIds :
        /\ result[c].status = "rejected"
        /\ obs[c].login # NULL
        /\ obs[c].cacheAtEnd # NULL
        /\ cachedTokens = obs[c].cacheAtEnd

\* the call ran the whole protocol and wrote the cache
FetchedTokens(c) ==
    /\ result[c].status = "fulfilled"
    /\ obs[c].startCache = NULL

\* C6: when a call completes through the whole protocol, the cache holds
\* exactly the pair the call returns, whatever it held before, and that pair
\* is the accessToken and the refreshToken of the login response and nothing
\* else.
C6_SuccessCachesReturnedPair ==
    \A c \in CallIds :
        FetchedTokens(c) =>
            /\ obs[c].cacheAfterEnd = result[c].value
            /\ result[c].value =
                   [accessToken |-> obs[c].login.json.accessToken,
                    refreshToken |-> obs[c].login.json.refreshToken]

\* a fetched pair replaces the different pair another call had cached
C6_Witness ==
    \E c \in CallIds :
        /\ FetchedTokens(c)
        /\ obs[c].cacheAtEnd # NULL
        /\ obs[c].cacheAtEnd # result[c].value
        /\ cachedTokens = result[c].value

\* C7: after clearAuthTokens the next call finds the cache empty and runs the
\* protocol again, starting with a new challenge request.
C7_ClearForcesReauthentication ==
    \A c \in CallIds :
        obs[c].afterClear =>
            /\ obs[c].startCache = NULL
            /\ ~Falsy(config[c].privateKey) => obs[c].nChallenge = 1

SessionState ==
    IF cachedTokens # NULL THEN "Authenticated"
    ELSE IF \E c \in CallIds : InFlight(c) THEN "Authenticating"
    ELSE "Unauthenticated"

\* the outcome that the call's own config and the responses to its own
\* requests determine
OwnOutcome(c) ==
    LET key == config[c].privateKey
    IN  IF Falsy(key)
        THEN Rejected(MissingPrivateKey)
        ELSE IF ~obs[c].challenge.ok
        THEN Rejected(HttpErr("Failed to get challenge", obs[c].challenge))
        ELSE IF SignMessageError(key, obs[c].challenge.body) # NULL
        THEN Rejected(SignMessageError(key, obs[c].challenge.body))
        ELSE IF ~obs[c].login.ok
        THEN Rejected(HttpErr("Failed to login", obs[c].login))
        ELSE Fulfilled([accessToken |-> obs[c].login.json.accessToken,
                        refreshToken |-> obs[c].login.json.refreshToken])

\* C8: a failed attempt leaves nothing behind.  While no call has fetched
\* tokens the cache stays empty, so once the failed attempts are over the
\* session is Unauthenticated; and a call made after a failure on an empty
\* cache starts a round of its own with a new challenge request and ends with
\* the outcome of that round alone.
C8_FailureLeavesNoState ==
    /\ (\A c \in CallIds : ~FetchedTokens(c)) => cachedTokens = NULL
    /\ ((\A c \in CallIds : ~FetchedTokens(c) /\ ~InFlight(c))
            => SessionState = "Unauthenticated")
    /\ \A c \in CallIds :
          (obs[c].afterFailure /\ obs[c].startCache = NULL) =>
              /\ ~Falsy(config[c].privateKey) =>
                     /\ obs[c].nChallenge = 1
                     /\ Head(obs[c].events) = "challenge_request"
              /\ Settles(c) => result[c] = OwnOutcome(c)

\* after a rejected call, a later call fetches tokens
C8_Witness ==
    \E c, d \in CallIds :
        /\ result[d].status = "rejected"
        /\ obs[c].afterFailure
        /\ obs[c].concurrent = {}
        /\ FetchedTokens(c)

\* each step of a round directly follows the success of the step before it
RoundOrder(evs) ==
    \A i \in 1..Len(evs) :
        LET prev == IF i = 1 THEN "none" ELSE evs[i - 1]
        IN  /\ evs[i] = "challenge_request" => prev = "none"
            /\ evs[i] \in {"challenge_ok", "challenge_error"}
                   => prev = "challenge_request"
            /\ evs[i] = "sign" => prev = "challenge_ok"
            /\ evs[i] = "signed" => prev = "sign"
            /\ evs[i] = "login_request" => prev = "signed"
            /\ evs[i] \in {"login_ok", "login_error"} => prev = "login_request"
            /\ evs[i] = "cache_write" => prev = "login_ok"

\* C9: within one round the order is challenge request, signing, login
\* request, cache write; signing starts only after the challenge request has
\* succeeded, the login is sent only after the signature exists, and the
\* cache is written only after the login has succeeded.
C9_StepOrder ==
    \A c \in CallIds :
        /\ RoundOrder(obs[c].events)
        /\ pc[c] \in {"signing", "login", "resolved"} =>
               (obs[c].challenge # NULL /\ obs[c].challenge.ok)
        /\ pc[c] \in {"login", "resolved"} => signature[c] # NULL
        /\ pc[c] = "resolved" => (obs[c].login # NULL /\ obs[c].login.ok)

C9_Witness ==
    \E c \in CallIds :
        obs[c].events = <<"challenge_request", "challenge_ok", "sign",
                          "signed", "login_request", "login_ok",
                          "cache_write">>

\* C10: the message a call posts to /login is the challenge text it fetched,
\* unchanged, and the signature posted with it is the signature of the
\* call's key over that text; a call posts at most one login, and no text is
\* posted twice.
C10_LoginCarriesChallengeVerbatim ==
    /\ \A c \in CallIds :
          /\ obs[c].nLogin <= 1
          /\ obs[c].nLogin = 1 =>
                /\ loginLog[obs[c].loginNo].message = obs[c].challenge.body
                /\ loginLog[obs[c].loginNo].signature =
                       PersonalSign(CleanKey(config[c].privateKey),
                                    obs[c].challenge.body)
    /\ \A i, j \in 1..Len(loginLog) :
          i # j => loginLog[i].message # loginLog[j].message

\* two calls have each posted their own challenge, one of them a text with
\* leading blank and trailing newline
C10_Witness ==
    \E c, d \in CallIds :
        /\ c # d
        /\ obs[c].nLogin = 1
        /\ obs[d].nLogin = 1
        /\ Head(obs[c].challenge.body) = " "
        /\ loginLog[obs[c].loginNo].message = obs[c].challenge.body

\* the last n steps of a call
LastEvents(c, n) ==
    LET evs == obs[c].events
    IN  IF Len(evs) < n THEN <<>> ELSE SubSeq(evs, Len(evs) - n + 1, Len(evs))

\* the error of the step at which the round of call c stopped
StepError(c) ==
    IF LastEvents(c, 2) = <<"challenge_error", "rejected">>
    THEN HttpErr("Failed to get challenge", obs[c].challenge)
    ELSE IF LastEvents(c, 2) = <<"sign", "rejected">>
    THEN SignMessageError(config[c].privateKey, message[c])
    ELSE IF LastEvents(c, 2) = <<"login_error", "rejected">>
    THEN HttpErr("Failed to login", obs[c].login)
    ELSE MissingPrivateKey

\* the steps that come after the given step in a round
LaterSteps(step) ==
    IF step = "challenge_error"
    THEN {"sign", "signed", "login_request", "login_ok", "login_error",
          "cache_write"}
    ELSE IF step = "sign"
    THEN {"signed", "login_request", "login_ok", "login_error", "cache_write"}
    ELSE {"cache_write"}

\* C11: no step is retried.  A call sends at most one challenge request and
\* at most one login request; when the challenge request, the signing or the
\* login fails, the call is rejected with the error of that step as the step
\* raised it, and none of the later steps of the round has been or is executed.
C11_NoRetry ==
    \A c \in CallIds :
        /\ obs[c].nChallenge <= 1
        /\ obs[c].nLogin <= 1
        /\ result[c].status = "rejected" =>
              /\ pc[c] = "done"
              /\ LastEvents(c, 1) = <<"rejected">>
              /\ result[c].error = StepError(c)
              /\ Len(obs[c].events) >= 2 =>
                    LET step == obs[c].events[Len(obs[c].events) - 1]
                    IN  /\ step \in {"challenge_error", "sign", "login_error"}
                        /\ \A i \in 1..Len(obs[c].events) :
                              obs[c].events[i] \notin LaterSteps(step)
                        /\ step # "login_error" => obs[c].nLogin = 0

\* a call was rejected at its login, another at its signing, after one
\* challenge request each
C11_Witness ==
    \E c, d \in CallIds :
        /\ result[c].status = "rejected"
        /\ LastEvents(c, 2) = <<"login_error", "rejected">>
        /\ obs[c].nChallenge = 1
        /\ obs[c].nLogin = 1
        /\ result[d].status = "rejected"
        /\ LastEvents(d, 2) = <<"sign", "rejected">>

\* C16: upload then retrieve is a round trip for every byte sequence B:
\* decoding the base64 text that bytesToBase64 makes of B, as the upload tool
\* decodes its file argument, gives back exactly the bytes B.
C16_Base64RoundTrip ==
    fn.stage = "decoded" => (fn.decoded.ok /\ fn.decoded.bytes = fn.data)

\* the error kinds of signing: EmptyInput is one of the two errors thrown for a
\* missing argument, InvalidKeyFormat the error that wraps a failure to make
\* a wallet of the key
EmptyInput(e) ==
    e \in {Err("Private key is required for signing messages"),
           Err("Message cannot be empty")}

InvalidKeyFormat(e) ==
    /\ e.name = "Error"
    /\ DOMAIN e.message = {"text", "detail"}
    /\ e.message.text = "Failed to sign message"

\* the key without its optional 0x prefix
Stripped(k) ==
    IF Len(k) >= 2 /\ SubSeq(k, 1, 2) = <<"0", "x">>
    THEN SubSeq(k, 3, Len(k))
    ELSE k

Hexadecimal(s) ==
    s # <<>> /\ \A i \in DOMAIN s : s[i] \in HexChars

SignFailsWith(Kind(_)) ==
    /\ fn.settled.status = "rejected"
    /\ Kind(fn.settled.error)

\* C18: sign fails with EmptyInput when the private key is undefined or the
\* empty string; with EmptyInput when the key is given and the message is
\* empty; with InvalidKeyFormat when key and message are given and the key is
\* not hexadecimal.  No signature is returned in any of these cases.
C18_SignRejectsBadInput ==
    fn.stage = "settled" =>
        LET k == fn.privateKey
            m == fn.message
            given == k # UNDEFINED /\ k # <<>>
        IN  /\ ~given => SignFailsWith(EmptyInput)
            /\ given /\ m = <<>> => SignFailsWith(EmptyInput)
            /\ given /\ m # <<>> /\ ~Hexadecimal(Stripped(k)) =>
                  SignFailsWith(InvalidKeyFormat)

\* 'invalid-hex' with a message was refused as InvalidKeyFormat
C18_Witness ==
    /\ fn.stage = "settled"
    /\ fn.privateKey = KeyNotHex
    /\ fn.message # <<>>
    /\ SignFailsWith(InvalidKeyFormat)

\* C19: given a message, sign fails with InvalidKeyFormat for every key (a
\* non-empty string) that, after stripping an optional 0x prefix, is not a
\* hexadecimal string of exactly 64 characters; keys that are hexadecimal but
\* of another length are among them.
C19_SignRejectsKeyOfWrongShape ==
    fn.stage = "settled" =>
        LET k == fn.privateKey
            m == fn.message
        IN  (/\ k # UNDEFINED
             /\ k # <<>>
             /\ m # <<>>
             /\ ~(Hexadecimal(Stripped(k)) /\ Len(Stripped(k)) = 64))
                => SignFailsWith(InvalidKeyFormat)

\* a hexadecimal key of 63 characters after its prefix was refused
C19_Witness ==
    /\ fn.stage = "settled"
    /\ fn.privateKey = <<"0", "x">> \o Rep("a", 63)
    /\ fn.message # <<>>
    /\ SignFailsWith(InvalidKeyFormat)

\* ---- the tool handlers ----

Done(i) == tool[i].pc = "done"

\* what went wrong in invocation i, if anything: the decoding of the payload,
\* getAuthTokens, or the storage call
DecodingFailed(i) ==
    tool[i].name = "upload" /\ ~base64ToBytes(tool[i].input.file).ok

TokensFailed(i) ==
    tool[i].call # 0 /\ result[tool[i].call].status = "rejected"

Unreachable(i) ==
    tool[i].response # NULL /\ "failed" \in DOMAIN tool[i].response

Refused(i) ==
    /\ tool[i].response # NULL
    /\ "failed" \notin DOMAIN tool[i].response
    /\ ~tool[i].response.ok

Failed(i) ==
    DecodingFailed(i) \/ TokensFailed(i) \/ Unreachable(i) \/ Refused(i)

\* the message of an HTTP failure: which operation, status, status text, body
HttpFailure(text, r) ==
    [text |-> text, status |-> r.status, statusText |-> r.statusText,
     body |-> r.body]

StorageFailureText(i) ==
    IF tool[i].name = "upload"
    THEN "Failed to upload file"
    ELSE "Failed to download file"

\* the error that made invocation i fail
FailureOf(i) ==
    IF DecodingFailed(i)
    THEN [name |-> "Error", message |-> [text |-> "Invalid base64 format"],
          cause |-> NULL]
    ELSE IF TokensFailed(i)
    THEN [name |-> result[tool[i].call].error.name,
          message |-> result[tool[i].call].error.message,
          cause |-> NULL]
    ELSE IF Unreachable(i)
    THEN [name |-> tool[i].response.failed.name,
          message |-> tool[i].response.failed.message,
          cause |-> tool[i].response.failed.cause.message]
    ELSE [name |-> "Error",
          message |-> HttpFailure(StorageFailureText(i), tool[i].response),
          cause |-> NULL]

Returned(i) == "content" \in DOMAIN tool[i].out

Flagged(i) ==
    /\ "error" \in DOMAIN tool[i].out.content[1]
    /\ tool[i].out.content[1].error = TRUE

Payload(i) == tool[i].out.content[1].text

\* C12: the handlers never throw across the tool boundary.  Every invocation
\* ends with a returned result, and when the decoding of the payload,
\* getAuthTokens or the storage call failed, the text of the result carries
\* the name and the message of the error and, as cause, the message of the
\* error's cause, or null when it has none.
C12_FailuresAreReturned ==
    \A i \in CallIds :
        Done(i) =>
            /\ Returned(i)
            /\ Failed(i) =>
                  /\ {"name", "message", "cause"} \subseteq DOMAIN Payload(i)
                  /\ Payload(i).name = FailureOf(i).name
                  /\ Payload(i).message = FailureOf(i).message
                  /\ Payload(i).cause = FailureOf(i).cause

\* an upload that could not reach the service returned the cause of the
\* failure, and another invocation returned the rejection of getAuthTokens
C12_Witness ==
    \E i, j \in CallIds :
        /\ Done(i)
        /\ Unreachable(i)
        /\ Returned(i)
        /\ Payload(i).cause = [text |-> "connect ECONNREFUSED"]
        /\ Done(j)
        /\ TokensFailed(j)
        /\ Returned(j)
        /\ Payload(j).cause = NULL

\* C13: a result is flagged as an error (error: true) exactly when the
\* operation failed.
C13_FlaggedIffFailed ==
    \A i \in CallIds :
        (Done(i) /\ Returned(i)) => (Flagged(i) <=> Failed(i))

\* one invocation failed and is flagged, another succeeded and is not
C13_Witness ==
    \E i, j \in CallIds :
        /\ Done(i) /\ Failed(i) /\ Flagged(i)
        /\ Done(j) /\ ~Failed(j) /\ ~Flagged(j)
        /\ tool[j].response.ok

\* C14: when the payload of an upload is rejected by the base64 decoding, the
\* handler returns the error result and nothing went over the network in
\* that invocation: it made no getAuthTokens call (so no challenge and no
\* login request) and no upload request, and the cache is as it was.
C14_InvalidPayloadStaysLocal ==
    \A i \in CallIds :
        (Done(i) /\ DecodingFailed(i)) =>
            /\ Returned(i)
            /\ Flagged(i)
            /\ Payload(i).message = [text |-> "Invalid base64 format"]
            /\ tool[i].call = 0
            /\ tool[i].request = NULL
            /\ tool[i].response = NULL
            /\ tool[i].cacheAtEnd = tool[i].cacheAtStart

\* an upload of text that is not base64 was refused while a token pair was
\* in the cache
C14_Witness ==
    \E i \in CallIds :
        /\ Done(i)
        /\ DecodingFailed(i)
        /\ Flagged(i)
        /\ tool[i].cacheAtStart # NULL
        /\ tool[i].cacheAtEnd = tool[i].cacheAtStart

\* C15: an input that violates the declared schema is rejected with the
\* schema's message before any network call: the upload handler invoked with
\* empty file content returns an error result whose message is
\* 'File content cannot be empty', and sends no upload request.
C15_EmptyFileRejected ==
    \A i \in CallIds :
        (tool[i].name = "upload" /\ tool[i].input.file = <<>>) =>
            /\ tool[i].request = NULL
            /\ Done(i) =>
                  /\ Returned(i)
                  /\ Flagged(i)
                  /\ Payload(i).message = [text |-> "File content cannot be empty"]

\* C17: a response that is not ok makes each of the four HTTP operations
\* fail with an error of its own kind that carries the status, the status
\* text and the body of the response, and no result value is returned: the
\* getAuthTokens call is rejected with that error, the tool returns it.
C17_HttpFailuresCarryResponse ==
    /\ \A c \in CallIds :
          /\ (obs[c].challenge # NULL /\ ~obs[c].challenge.ok) =>
                /\ result[c].status = "rejected"
                /\ result[c].error.message =
                      HttpFailure("Failed to get challenge", obs[c].challenge)
          /\ (obs[c].login # NULL /\ ~obs[c].login.ok) =>
                /\ result[c].status = "rejected"
                /\ result[c].error.message =
                      HttpFailure("Failed to login", obs[c].login)
    /\ \A i \in CallIds :
          Refused(i) =>
              /\ Done(i)
              /\ Flagged(i)
              /\ Payload(i).message =
                    HttpFailure(StorageFailureText(i), tool[i].response)
              /\ "cid" \notin DOMAIN Payload(i)

\* an upload was refused with 500 and a download with 404
C17_Witness ==
    \E i, j \in CallIds :
        /\ tool[i].name = "upload"
        /\ Refused(i)
        /\ Payload(i).message.status = 500
        /\ tool[j].name = "retrieve"
        /\ Refused(j)
        /\ Payload(j).message.status = 404
        /\ Payload(j).message.body = <<"n">>

\* C20: on success the upload tool returns the Mid of the storage response as
\* cid, the input name as filename and the number of decoded bytes as size;
\* the retrieve tool returns the input cid, the base64 encoding of the
\* downloaded bytes as file, their number as size, and the filename and the
\* content type the download reported.
C20_SuccessPayload ==
    \A i \in CallIds :
        (Done(i) /\ Returned(i) /\ ~Failed(i)) =>
            IF tool[i].name = "upload"
            THEN Payload(i) =
                    [cid |-> tool[i].response.json.Mid,
                     filename |-> tool[i].input.name,
                     size |-> Len(tool[i].request.body[1].value)]
            ELSE LET downloaded == DownloadResult(tool[i].response)
                 IN  /\ Payload(i).cid = tool[i].input.cid
                     /\ Payload(i).file = bytesToBase64(tool[i].response.data)
                     /\ Payload(i).size = Len(tool[i].response.data)
                     /\ Payload(i).filename = downloaded.filename
                     /\ IF downloaded.contentType = UNDEFINED
                        THEN "contentType" \notin DOMAIN Payload(i)
                        ELSE Payload(i).contentType = downloaded.contentType

\* an upload of two bytes and a retrieve of two bytes with a named file
\* succeeded
C20_Witness ==
    \E i, j \in CallIds :
        /\ tool[i].name = "upload"
        /\ Done(i) /\ ~Failed(i)
        /\ Payload(i).size = 2
        /\ Payload(i).cid = <<"Q", "m">>
        /\ tool[j].name = "retrieve"
        /\ Done(j) /\ ~Failed(j)
        /\ Payload(j).filename = <<"a">>
        /\ Payload(j).file = <<"A", "Q", "I", "=">>

\* ---- the storage client ----

\* the fields of the multipart body sent, by name
SentFields == {fn.request.body[i].name : i \in DOMAIN fn.request.body}

Carries(options, field) == field \in DOMAIN options

\* C21: the multipart body of an upload has the field key whenever the
\* options carry an encryption key, the field public whenever they carry
\* isPublic, be it true or false, and the field user whenever they carry a
\* user; none of the three is sent when its option is absent.
C21_OptionalFieldsSentWhenPresent ==
    (fn.stage = "sent") =>
        /\ "file" \in SentFields
        /\ (Carries(fn.options, "key") /\ fn.options.key # <<>>)
              => "key" \in SentFields
        /\ Carries(fn.options, "public") => "public" \in SentFields
        /\ (Carries(fn.options, "user") /\ fn.options.user # <<>>)
              => "user" \in SentFields
        /\ \A field \in {"key", "public", "user"} :
              ~Carries(fn.options, field) => field \notin SentFields

Unknown == <<"u", "n", "k", "n", "o", "w", "n">>

\* C22: download returns the filename of the Content-Disposition header, be
\* it quoted or not, and the literal 'unknown' when the header is absent or
\* has no filename that can be parsed; it returns in every case.
C22_FilenameFromHeader ==
    (fn.stage = "returned") =>
        /\ DOMAIN fn.returned = {"data", "filename", "contentType"}
        /\ fn.returned.data = fn.response.data
        /\ fn.returned.filename =
              IF fn.disposition.form \in {"quoted", "unquoted"}
              THEN fn.disposition.name
              ELSE Unknown

(* --------------------------- start-up claims --------------------------- *)

ToolNamed(name, cfg) ==
    IF name = "retrieve" THEN retrieveTool(cfg) ELSE uploadTool(cfg)

CallsNaming(name) == {i \in 1..Len(fn.calls) : fn.calls[i][1] = name}

\* C23: when registerTools has returned it has called server.tool exactly
\* twice, once with the name 'retrieve' and once with the name 'upload', and
\* each call carries the description, the shape of the input schema and the
\* handler of the tool of that name, made for the configuration given.
C23_TwoToolsRegistered ==
    (fn.op = "registerTools" /\ fn.stage = "done") =>
        /\ Len(fn.calls) = 2
        /\ \A name \in {"retrieve", "upload"} : Cardinality(CallsNaming(name)) = 1
        /\ \A i \in 1..Len(fn.calls) :
              LET t == ToolNamed(fn.calls[i][1], fn.mefsConfig)
              IN  /\ fn.calls[i][2] = t.description
                  /\ fn.calls[i][3] = t.inputSchema.shape
                  /\ fn.calls[i][4] = t.handler

C23_Witness ==
    /\ fn.op = "registerTools"
    /\ fn.stage = "done"
    /\ fn.mefsConfig.privateKey = KeyA
    /\ Len(fn.calls) = 2

KeyGiven == "MEFS_PRIVATE_KEY" \in DOMAIN fn.env

\* C24: loadMefsConfig returns and never throws. With no environment
\* variable set it returns the default base URL, the default origin, chain
\* id 985 and neither private key nor address. The private key of the
\* environment is returned as it is. The object has an address exactly when
\* the key is set and privateKeyToAddress makes an address of it; a key that
\* is set and makes no address leaves address undefined and a warning is
\* written.
C24_LoadMefsConfigNeverThrows ==
    (fn.op = "loadMefsConfig" /\ fn.stage = "done") =>
        /\ ~fn.outcome.threw
        /\ (DOMAIN fn.env = {}) =>
              /\ fn.outcome.config.apiBaseUrl = "https://api.mefs.io:10000/produce"
              /\ fn.outcome.config.origin = "https://memo.io"
              /\ fn.outcome.config.chainId = Number(985)
              /\ fn.outcome.config.privateKey = UNDEFINED
              /\ "address" \notin DOMAIN fn.outcome.config
        /\ KeyGiven => fn.outcome.config.privateKey = fn.env.MEFS_PRIVATE_KEY
        /\ ("address" \in DOMAIN fn.outcome.config) <=>
              (KeyGiven /\ privateKeyToAddress(fn.env.MEFS_PRIVATE_KEY).ok)
        /\ (KeyGiven /\ ~privateKeyToAddress(fn.env.MEFS_PRIVATE_KEY).ok) =>
              /\ "address" \notin DOMAIN fn.outcome.config
              /\ fn.outcome.warnings # <<>>

C24_Witness ==
    /\ fn.op = "loadMefsConfig"
    /\ fn.stage = "done"
    /\ KeyGiven
    /\ fn.env.MEFS_PRIVATE_KEY = KeyNotHex
    /\ ~fn.outcome.threw
    /\ fn.outcome.config.privateKey = KeyNotHex
    /\ fn.outcome.warnings # <<>>

(* ------------------- the tools and the session together ---------------- *)

\* invocation i has sent its storage request
Sent(i) == tool[i].request # NULL

\* the getAuthTokens call of invocation i has given it tokens
GotTokens(i) == tool[i].call # 0 /\ result[tool[i].call].status = "fulfilled"

\* C25: an invocation that has sent its storage request has had its own
\* getAuthTokens call fulfilled before, and the request carries the
\* accessToken of that call's result as a bearer token; an invocation whose
\* getAuthTokens call was rejected, or that made none, sends no request.
C25_RequestAfterTokens ==
    \A i \in CallIds :
        /\ Sent(i) =>
              /\ GotTokens(i)
              /\ tool[i].request.authorization =
                    [scheme |-> "Bearer",
                     token |-> result[tool[i].call].value.accessToken]
        /\ (Done(i) /\ ~GotTokens(i)) => ~Sent(i)

C25_Witness ==
    \E i, j \in CallIds :
        /\ Sent(i)
        /\ tool[i].request.authorization.token # UNDEFINED
        /\ Done(j)
        /\ TokensFailed(j)
        /\ ~Sent(j)

\* the storage answered invocation i that its token is not accepted
Unauthorized(i) ==
    /\ tool[i].response # NULL
    /\ "failed" \notin DOMAIN tool[i].response
    /\ tool[i].response.status = 401

\* C26: when an invocation returns after the storage has answered 401 to the
\* token it sent, the cache no longer holds the pair with that token, so
\* that the next invocation authenticates again.
C26_UnauthorizedInvalidates ==
    \A i \in CallIds :
        (Done(i) /\ Unauthorized(i)) =>
            \/ tool[i].cacheAtEnd = NULL
            \/ tool[i].cacheAtEnd.accessToken #
                   tool[i].request.authorization.token

(* ------------------------ the cache, once more -------------------------- *)

\* clearAuthTokens was called while call c was in flight
ClearedInFlight(c) == obs[c].clearsAtStart < obs[c].clearsAtEnd

\* C27: a round during which clearAuthTokens was called does not place its
\* pair in the cache when it ends: after clearAuthTokens has returned, the
\* cache holds no pair of a round that began before it.
C27_ClearedRoundNotCached ==
    \A c \in CallIds :
        (FetchedTokens(c) /\ ClearedInFlight(c)) =>
            obs[c].cacheAfterEnd # result[c].value

\* no clearAuthTokens from the time the first of the two calls was made to
\* the time the last of them settled
NoClearBetween(c, d) ==
    /\ obs[c].clearsAtStart = obs[c].clearsAtEnd
    /\ obs[d].clearsAtStart = obs[d].clearsAtEnd
    /\ obs[c].clearsAtStart = obs[d].clearsAtStart

\* C28: two calls that are both fulfilled, with no clearAuthTokens between
\* them, are fulfilled with the same pair, however their steps interleave.
C28_SamePairUntilCleared ==
    \A c, d \in CallIds :
        (/\ result[c].status = "fulfilled"
         /\ result[d].status = "fulfilled"
         /\ NoClearBetween(c, d)) =>
            result[c].value = result[d].value

\* C29: the pair a call is fulfilled with was fetched by a call made with
\* the same configuration, that is, issued to the same identity.
C29_PairOfSameIdentity ==
    \A c \in CallIds :
        result[c].status = "fulfilled" =>
            \E d \in CallIds :
                /\ FetchedTokens(d)
                /\ result[d].value = result[c].value
                /\ config[d] = config[c]

\* C30: the cache is empty or holds a pair whose accessToken and
\* refreshToken are both defined and are those of one login response that
\* was received; a login response without a token is never cached.
C30_CacheEmptyOrComplete ==
    \/ cachedTokens = NULL
    \/ /\ cachedTokens.accessToken # UNDEFINED
       /\ cachedTokens.refreshToken # UNDEFINED
       /\ \E c \in CallIds :
             /\ obs[c].login # NULL
             /\ obs[c].login.ok
             /\ cachedTokens =
                   [accessToken |-> obs[c].login.json.accessToken,
                    refreshToken |-> obs[c].login.json.refreshToken]

(* ------------------------------ termination ----------------------------- *)

Invoked(i) == tool[i].pc # "idle"

\* invocation i has returned one result: a success payload or an error result
ReturnedOne(i) ==
    /\ Done(i)
    /\ Returned(i)
    /\ Len(tool[i].out.content) = 1

\* C31: when every request is answered, every tool invocation returns in the
\* end, whatever invocations and clearAuthTokens calls go on beside it; what
\* it returns is one result, a success payload or an error result, and the
\* result never changes afterwards.
C31_EveryInvocationReturns ==
    /\ \A i \in CallIds : Invoked(i) ~> ReturnedOne(i)
    /\ [][\A i \in CallIds : Done(i) => tool'[i] = tool[i]]_vars

\* two invocations have returned, one with a payload and one with an error,
\* and clearAuthTokens was called while the first was waiting
C31_Witness ==
    \E i, j \in CallIds :
        /\ i # j
        /\ ReturnedOne(i)
        /\ ReturnedOne(j)
        /\ ~Failed(i)
        /\ Failed(j)
        /\ clears > 0
        /\ tool[i].call # 0
        /\ ClearedInFlight(tool[i].call)

(* ---------------------------- the error result -------------------------- *)

\* C32: a failed invocation returns a JSON text with the fields name, message
\* and cause and no other, whichever tool it is; so an upload and a retrieve
\* that failed of the same error return texts with the same fields.
C32_UniformErrorEnvelope ==
    \A i \in CallIds :
        (Done(i) /\ Failed(i)) =>
            /\ DOMAIN Payload(i) = {"name", "message", "cause"}
            /\ \A j \in CallIds :
                  (/\ Done(j)
                   /\ Failed(j)
                   /\ tool[j].name # tool[i].name
                   /\ FailureOf(j) = FailureOf(i)) =>
                      DOMAIN Payload(j) = DOMAIN Payload(i)

(* --------------------------- strict validation -------------------------- *)

\* C33: base64ToBytes accepts a text only when the bytes it returns, encoded
\* again, give the text back (the text without its data URL prefix); every
\* other text, such as one without its padding or one whose first character
\* the decoder drops, is rejected.
C33_StrictBase64 ==
    (fn.stage = "decoded" /\ fn.decoded.ok) =>
        bytesToBase64(fn.decoded.bytes) = StripDataUrl(fn.text)

(* -------------------------- the challenge request ----------------------- *)

QueryNames == {fn.request.url.query[i].name : i \in DOMAIN fn.request.url.query}

QueryValue(name) ==
    LET i == CHOOSE j \in DOMAIN fn.request.url.query :
                 fn.request.url.query[j].name = name
    IN  fn.request.url.query[i].value

AddressConfigured ==
    "address" \in DOMAIN fn.config /\ fn.config.address # <<>>

ChainIdConfigured ==
    "chainId" \in DOMAIN fn.config /\ fn.config.chainId # NaN

\* C34: getChallenge sends a GET to <apiBaseUrl>/challenge with the header
\* Origin set to config.origin; the query has address exactly when the
\* configuration has an address, and chainid exactly when it has a chain
\* id, with the configured values; on an ok response getChallenge is
\* fulfilled with the body as it came.
C34_ChallengeRequest ==
    /\ fn.stage \in {"sent", "settled"} =>
          /\ fn.request.method = "GET"
          /\ fn.request.url.base = fn.config.apiBaseUrl
          /\ fn.request.url.path = "/challenge"
          /\ fn.request.headers = [Origin |-> fn.config.origin]
          /\ QueryNames \subseteq {"address", "chainid"}
          /\ "address" \in QueryNames <=> AddressConfigured
          /\ AddressConfigured => QueryValue("address") = fn.config.address
          /\ "chainid" \in QueryNames <=> ChainIdConfigured
    /\ (fn.stage = "settled" /\ fn.response.ok) =>
          fn.settled = Fulfilled(fn.response.body)

====
